---------------------------- MODULE Spec2Model ----------------------------
(***************************************************************************)
(* A model of PyFAT12 (pyfat12/fs.py, pyfat12/floppy.py, pyfat12/path).    *)
(*                                                                         *)
(* The image is modelled region by region: the packed on-disk FAT copies   *)
(* (bytes), the EBPB label field, and every sector from the root directory *)
(* to the end of the volume.  A sector is a sequence of 32-byte blocks; a  *)
(* block is kept as the record of the fields a directory entry has at      *)
(* these 32 bytes, whatever wrote it (an entry, file data, zero fill), so  *)
(* that a cluster can be read as a directory or as file data alike.        *)
(*                                                                         *)
(* A call of the Python code is an operator on a record `s` holding the    *)
(* FAT12 object's fields and the image.  An exception is the field         *)
(* s.err # NoErr; what the call had changed before raising stays changed.  *)
(***************************************************************************)
EXTENDS Integers, Sequences, FiniteSets, TLC

(***************************************************************************)
(* Bounds of the model (the 1.44 MB geometry, scaled down).                *)
(***************************************************************************)
\* 32-byte blocks per sector (16 on a real volume: bytes_per_sector = 512)
SlotsPerSector == 3
\* sectors of the root directory (14 on a real volume: root_entries = 224)
RootSectors == 3
\* data clusters of the volume (2847 on a real volume)
DataClusters == 4
\* 3-byte groups of one FAT copy (1536 on a real volume), two entries each
FatTriples == 4
\* the caller makes at most this many calls
MaxCalls == 3
\* the number of calls the caller makes when it writes and copies inside a
\* new directory
MaxCopyCalls == 4
MaxNavCalls == 5
MaxAllocCalls == 2
MaxFatCalls == 2

(***************************************************************************)
(* Program constants.                                                      *)
(***************************************************************************)
EntryBytes == 32
fat_start_sector == 1
fat_count == 2
sectors_per_fat == 9
sectors_per_cluster == 1
EndOfChain == 4095
FatEntry0 == 4080
FreeMark == 229

bytes_per_sector == SlotsPerSector * EntryBytes
root_entries == RootSectors * SlotsPerSector
FatBytes == 3 * FatTriples
logical_sectors ==
    fat_start_sector + sectors_per_fat * fat_count + RootSectors + DataClusters

NoErr == "ok"
None == 0 - 1

(***************************************************************************)
(* Bit arithmetic on naturals.                                             *)
(***************************************************************************)
RECURSIVE BitAnd(_, _)
BitAnd(a, b) ==
    IF a = 0 \/ b = 0 THEN 0
    ELSE (a % 2) * (b % 2) + 2 * BitAnd(a \div 2, b \div 2)

RECURSIVE BitOr(_, _)
BitOr(a, b) ==
    IF a = 0 THEN b
    ELSE IF b = 0 THEN a
    ELSE (IF a % 2 = 1 \/ b % 2 = 1 THEN 1 ELSE 0)
         + 2 * BitOr(a \div 2, b \div 2)

Raise(s, e) == [s EXCEPT !.err = e]
Failed(s) == s.err # NoErr

\* v under a name for the rest of a body, as a local variable holds it
With(v, Body(_)) == Body(v)

(***************************************************************************)
(* FloppyImage: sector-indexed access with its range checks.               *)
(***************************************************************************)
SectorDomain == (fat_start_sector + sectors_per_fat * fat_count) .. (logical_sectors - 1)

\* read_sectors raises ValueError when the range ends beyond the image
read_sectors_ok(sectornum, sectorcount) ==
    /\ sectornum >= 0
    /\ sectornum + sectorcount <= logical_sectors

\* write_sectors checks only where the range starts
write_sectors_ok(sectornum) ==
    /\ sectornum >= 0
    /\ sectornum < logical_sectors

(***************************************************************************)
(* FAT codec.                                                              *)
(***************************************************************************)
\* the 12-bit entries of one FAT copy given as bytes 0 .. FatBytes-1
DecodeFat(bytes) ==
    [i \in 0 .. (2 * FatTriples - 1) |->
        LET k == 3 * (i \div 2)
            pair == bytes[k] + 256 * bytes[k + 1] + 65536 * bytes[k + 2]
        IN  IF i % 2 = 0 THEN pair % 4096 ELSE (pair \div 4096) % 4096]

\* a packing that leaves the high nibble of the even entry out of the
\* middle byte
EncodeFat_odd_nibble(fat) ==
    [j \in 0 .. (FatBytes - 1) |->
        LET i == 2 * (j \div 3)
            val == (fat[i] % 4096) + 4096 * (fat[i + 1] % 4096)
        IN  CASE j % 3 = 0 -> val % 256
              [] j % 3 = 1 -> 16 * ((val \div 4096) % 16)
              [] OTHER -> (val \div 65536) % 256]

\* the bytes of one FAT copy packed from the in-memory entries
EncodeFat(fat) ==
    [j \in 0 .. (FatBytes - 1) |->
        LET i == 2 * (j \div 3)
            val == (fat[i] % 4096) + 4096 * (fat[i + 1] % 4096)
        IN  CASE j % 3 = 0 -> val % 256
              [] j % 3 = 1 -> (val \div 256) % 256
              [] OTHER -> (val \div 65536) % 256]

\* the first FAT copy of the image
DiskFatCopy(dfat, k) == [j \in 0 .. (FatBytes - 1) |-> dfat[k * FatBytes + j]]

_cluster_is_end_of_chain(cluster) == BitAnd(cluster, 4088) = 4088

\* the lower bound of the range off by two
_isvalidcluster_from0(cluster) == 0 <= cluster /\ cluster < 4080

_isvalidcluster(cluster) == 2 <= cluster /\ cluster < 4080

(***************************************************************************)
(* 32-byte blocks.  name: the 11 bytes at 0x00; attr: the byte at 0x0B;    *)
(* rsv: the value every one of the ten bytes 0x0C..0x15 holds; mtime: the  *)
(* little-endian word at 0x16; clus: the half word at 0x1A; size: the word *)
(* at 0x1C.                                                                *)
(***************************************************************************)
\* the block whose 32 bytes all equal d (file data, zero fill)
DataBlock(d) ==
    [name |-> [i \in 1 .. 11 |-> d], attr |-> d, rsv |-> d,
     mtime |-> d * 16843009, clus |-> d * 257, size |-> d * 16843009]

ZeroBlock == DataBlock(0)

\* bytes(n): a sector's worth, or a file's padding, of zero blocks
ZeroBlocks(n) == [i \in 1 .. n |-> ZeroBlock]

(***************************************************************************)
(* Strings are sequences of CP437 codes.                                   *)
(***************************************************************************)
Dot == 46
Space == 32

\* str.upper() on the characters the model uses (0xE5 is CP437 sigma, whose
\* upper case Sigma is 0xE4)
UpperChar(c) ==
    IF 97 <= c /\ c <= 122 THEN c - 32
    ELSE IF c = 229 THEN 228
    ELSE c

Upper(str) == [i \in 1 .. Len(str) |-> UpperChar(str[i])]

\* the characters str.rstrip() removes
IsSpace(c) == c \in {9, 10, 11, 12, 13, 28, 29, 30, 31, 32, 255}

RECURSIVE RStrip(_)
RStrip(str) ==
    IF str = << >> THEN str
    ELSE IF IsSpace(str[Len(str)]) THEN RStrip(SubSeq(str, 1, Len(str) - 1))
    ELSE str

\* bytes.ljust(n): padded on the right with spaces, never cut
LJust(str, n) == str \o [i \in 1 .. (IF Len(str) < n THEN n - Len(str) ELSE 0) |-> Space]

\* the greatest index of a dot in str, 0 when it has none
LastDot(str) ==
    IF \E i \in 1 .. Len(str) : str[i] = Dot
    THEN CHOOSE i \in 1 .. Len(str) :
            /\ str[i] = Dot
            /\ \A j \in (i + 1) .. Len(str) : str[j] # Dot
    ELSE 0

(***************************************************************************)
(* Packed date and time.                                                   *)
(***************************************************************************)
DateTime(year, month, day, hour, minute, second) ==
    [year |-> year, month |-> month, day |-> day,
     hour |-> hour, minute |-> minute, second |-> second]

NoDate == DateTime(0, 0, 0, 0, 0, 0)

_pdt_to_edt(dt) ==
    ((dt.year - 1980) % 128) * 33554432
    + (dt.month % 16) * 2097152
    + (dt.day % 32) * 65536
    + (dt.hour % 32) * 2048
    + (dt.minute % 64) * 32
    + ((dt.second \div 2) % 32)

_edt_to_pdt(i) ==
    DateTime(1980 + ((i \div 33554432) % 128), (i \div 2097152) % 16,
             (i \div 65536) % 32, (i \div 2048) % 32, (i \div 32) % 64,
             (i % 32) * 2)

\* datetime.datetime(...) raises ValueError outside these ranges
DaysInMonth(year, month) ==
    IF month \in {4, 6, 9, 11} THEN 30
    ELSE IF month = 2
         THEN (IF year % 4 = 0 /\ (year % 100 # 0 \/ year % 400 = 0) THEN 29 ELSE 28)
    ELSE 31

DateValid(dt) ==
    /\ 1 <= dt.month /\ dt.month <= 12
    /\ 1 <= dt.day /\ dt.day <= DaysInMonth(dt.year, dt.month)
    /\ dt.hour <= 23
    /\ dt.minute <= 59
    /\ dt.second <= 59

(***************************************************************************)
(* Directory entries.                                                      *)
(***************************************************************************)
_efn_to_cfn(fn) ==
    LET fn0 == IF fn[1] = 5 THEN [fn EXCEPT ![1] = 229] ELSE fn
        ext == RStrip(SubSeq(fn0, 9, 11))
        base == RStrip(SubSeq(fn0, 1, 8))
    IN  IF ext # << >> THEN base \o << Dot >> \o ext ELSE base

\* exists: "None" at the end of the directory, "False" for a free slot
Parsed(exists, filename, attributes, modified, cluster, file_size, err) ==
    [exists |-> exists, filename |-> filename, attributes |-> attributes,
     modified |-> modified, cluster |-> cluster, file_size |-> file_size,
     err |-> err]

_parsedirentry(data) ==
    IF data.name[1] = 0
    THEN Parsed("None", << >>, 0, NoDate, 0, 0, NoErr)
    ELSE IF data.name[1] = FreeMark
    THEN Parsed("False", << >>, 0, NoDate, 0, 0, NoErr)
    ELSE Parsed("True", _efn_to_cfn(data.name), data.attr,
                _edt_to_pdt(data.mtime), data.clus, data.size,
                IF DateValid(_edt_to_pdt(data.mtime)) THEN NoErr ELSE "ValueError")

\* filename is the 11 (or fewer) name bytes when isbytes, else a string;
\* modified = NoDate stands for None, and `now` is what the clock then reads
_makedirentry(filename, isbytes, attributes, modified, now, cluster, file_size) ==
    LET up == Upper(filename)
        d == LastDot(up)
        base == IF isbytes THEN SubSeq(filename, 1, IF Len(filename) < 8 THEN Len(filename) ELSE 8)
                ELSE IF d > 0 THEN SubSeq(up, 1, d - 1)
                ELSE up
        ext == IF isbytes THEN SubSeq(filename, 9, Len(filename))
               ELSE IF d > 0 THEN SubSeq(up, d + 1, Len(up))
               ELSE << Space, Space, Space >>
        when == IF modified = NoDate THEN now ELSE modified
    IN  IF Len(base) > 8 \/ Len(ext) > 3
        THEN [err |-> "ValueError", entry |-> ZeroBlock]
        ELSE IF file_size < 0
        THEN [err |-> "ValueError", entry |-> ZeroBlock]
        ELSE IF cluster < 0 \/ cluster >= 4086
        THEN [err |-> "ValueError", entry |-> ZeroBlock]
        ELSE IF attributes > 255
        THEN [err |-> "ValueError", entry |-> ZeroBlock]
        ELSE [err |-> NoErr,
              entry |-> [name |-> LJust(base, 8) \o LJust(ext, 3),
                         attr |-> attributes, rsv |-> 0,
                         mtime |-> _pdt_to_edt(when),
                         clus |-> cluster, size |-> file_size]]

(***************************************************************************)
(* The FAT12 object and its image.                                         *)
(*   fat          self._fat, indexed from 0                                *)
(*   dircluster   self._dircluster (1 is the root directory)               *)
(*   dirparents   self._dirparents                                         *)
(*   label_       self._label, a str while label_isstr, else bytes         *)
(*   label        self.label, an attribute only once label_set             *)
(*   write_label  self._write_label                                        *)
(*   has_ebpb     self.has_ebpb                                            *)
(*   bpb_label    the 11 bytes at 0x2B of the boot sector                  *)
(*   dfat         the bytes of the FAT copies, one after the other         *)
(*   sec          the sectors from the root directory on, blocks 1..       *)
(*   now          what datetime.now() reads during the call                *)
(*   err          the exception the call raised, if any                    *)
(***************************************************************************)
FatLen == 2 * FatTriples

_root_dir_sector == fat_start_sector + sectors_per_fat * fat_count

\* _readfat: the sector of cluster 0 (clusters 0 and 1 fall into the root
\* directory's last two sectors)
_first_cluster_sector ==
    ((_root_dir_sector + (root_entries \div SlotsPerSector)
        - 2 * sectors_per_cluster) + (sectors_per_cluster - 1))
    \div sectors_per_cluster

_cluster_index(cluster) == _first_cluster_sector + cluster * sectors_per_cluster

\* self._fat[i] raises IndexError outside the list
FatIndexOk(s, i) == i \in DOMAIN s.fat

CanReadCluster(cluster) == read_sectors_ok(_cluster_index(cluster), sectors_per_cluster)

_readcluster(s, cluster) == s.sec[_cluster_index(cluster)]

CanWriteCluster(cluster) == write_sectors_ok(_cluster_index(cluster))

_writecluster(s, cluster, data) ==
    IF ~CanWriteCluster(cluster) \/ Len(data) # SlotsPerSector
    THEN Raise(s, "ValueError")
    ELSE [s EXCEPT !.sec[_cluster_index(cluster)] = data]

\* read_sectors(root_start, root_sectors): the root directory's blocks
ReadRoot(s) ==
    [i \in 1 .. root_entries |->
        s.sec[_root_dir_sector + ((i - 1) \div SlotsPerSector)][((i - 1) % SlotsPerSector) + 1]]

\* write_sectors(root_start, root_sectors, rootdir)
WriteRoot(s, rootdir) ==
    [s EXCEPT !.sec =
        [n \in SectorDomain |->
            IF n < _root_dir_sector + RootSectors
            THEN [j \in 1 .. SlotsPerSector |->
                    rootdir[(n - _root_dir_sector) * SlotsPerSector + j]]
            ELSE s.sec[n]]]

\* a byte offset into a directory sector as a block index
SlotAt(offset) == (offset \div EntryBytes) + 1

\* only the first copy is written
_writefat_first(s) ==
    IF ~(FatLen <= (FatBytes * 3) \div 2)
    THEN Raise(s, "AssertionError")
    ELSE [s EXCEPT !.dfat =
            [j \in 0 .. (fat_count * FatBytes - 1) |->
                IF j < FatBytes THEN EncodeFat(s.fat)[j] ELSE s.dfat[j]]]

_writefat(s) ==
    IF ~(FatLen <= (FatBytes * 3) \div 2)
    THEN Raise(s, "AssertionError")
    ELSE [s EXCEPT !.dfat =
            [j \in 0 .. (fat_count * FatBytes - 1) |-> EncodeFat(s.fat)[j % FatBytes]]]

_readfat(s) ==
    With([s EXCEPT !.fat = DecodeFat(DiskFatCopy(s.dfat, 0))], LAMBDA s1 :
        IF s1.fat[0] # FatEntry0 \/ s1.fat[1] # EndOfChain
        THEN Raise(s1, "AssertionError")
        ELSE s1)

\* the label as _updatelabel normalises it: encoded, cut to 11 bytes, and
\* padded with NUL bytes
NormalLabel(label) ==
    SubSeq(label, 1, IF Len(label) < 11 THEN Len(label) ELSE 11)
    \o [i \in 1 .. (IF Len(label) < 11 THEN 11 - Len(label) ELSE 0) |-> 0]

\* the number of blocks before the first one whose byte 0 is 0
RECURSIVE LeadingEntries(_, _)
LeadingEntries(rootdir, i) ==
    IF i < Len(rootdir) /\ rootdir[i + 1].name[1] # 0
    THEN LeadingEntries(rootdir, i + 1)
    ELSE i

\* the else branch of _updatelabel: rebuild the root directory with a label
\* entry in front
ReaddLabel(s, rootdir, label) ==
    With(LeadingEntries(rootdir, 0), LAMBDA n :
    With(SelectSeq(SubSeq(rootdir, 1, n), LAMBDA e : BitAnd(e.attr, 15) = 8), LAMBDA kept :
    With(_makedirentry(label, TRUE, 8, NoDate, s.now, 0, 0), LAMBDA made :
    With(<< made.entry >> \o kept \o ZeroBlocks(n - Len(kept)), LAMBDA entries :
        IF n >= Len(rootdir) THEN [err |-> NoErr, rootdir |-> rootdir]
        ELSE IF made.err # NoErr THEN [err |-> made.err, rootdir |-> rootdir]
        ELSE IF Len(entries) > Len(rootdir) THEN [err |-> NoErr, rootdir |-> rootdir]
        ELSE [err |-> NoErr,
              rootdir |-> [i \in 1 .. Len(rootdir) |->
                            IF i <= Len(entries) THEN entries[i] ELSE rootdir[i]]]))))

_updatelabel(s) ==
    With([s EXCEPT !.label_ = NormalLabel(s.label_), !.label_isstr = FALSE], LAMBDA s1 :
    With(ReadRoot(s1), LAMBDA rootdir :
    With([s1 EXCEPT !.write_label = FALSE], LAMBDA s2 :
        IF ~s1.write_label THEN s1
        ELSE IF rootdir[1].name[1] \notin {0, FreeMark} /\ BitAnd(rootdir[1].attr, 8) = 8
        THEN WriteRoot(s2, [rootdir EXCEPT ![1].name = s1.label_])
        ELSE With(ReaddLabel(s2, rootdir, s1.label_), LAMBDA readd :
                IF readd.err # NoErr THEN Raise(s2, readd.err)
                ELSE WriteRoot(s2, readd.rootdir)))))

_writebpb(s) ==
    IF root_entries % SlotsPerSector # 0 THEN Raise(s, "AssertionError")
    ELSE IF s.has_ebpb THEN [s EXCEPT !.bpb_label = s.label_]
    ELSE s

commit(s) ==
    With(_updatelabel(s), LAMBDA s1 :
        IF Failed(s1) THEN s1
        ELSE With(_writebpb(s1), LAMBDA s2 :
                IF Failed(s2) THEN s2 ELSE _writefat(s2)))

_chdirroot(s) == [s EXCEPT !.dircluster = 1, !.dirparents = << >>]

\* the index of the first block of the root region whose attribute has the
\* volume-label bit, 0 when none has
LabelSlot(rootdir) ==
    IF \E i \in 1 .. Len(rootdir) : BitAnd(rootdir[i].attr, 8) = 8
    THEN CHOOSE i \in 1 .. Len(rootdir) :
            /\ BitAnd(rootdir[i].attr, 8) = 8
            /\ \A j \in 1 .. (i - 1) : BitAnd(rootdir[j].attr, 8) # 8
    ELSE 0

_readlabel(s) ==
    With(ReadRoot(s), LAMBDA rootdir :
    With(LabelSlot(rootdir), LAMBDA i :
    With([s EXCEPT !.write_label = FALSE], LAMBDA s1 :
        IF i # 0
        THEN [s1 EXCEPT !.label_ = RStrip(rootdir[i].name), !.label_isstr = TRUE]
        ELSE [s1 EXCEPT !.label_ = RStrip(s.bpb_label), !.label_isstr = TRUE,
                        !.label = RStrip(s.bpb_label), !.label_set = TRUE])))

\* FAT12(image): a fresh object on the image s holds
_readfs(s) ==
    With(_readfat([s EXCEPT !.label_set = FALSE, !.label = << >>, !.err = NoErr]), LAMBDA s1 :
        IF Failed(s1) THEN s1 ELSE _chdirroot(_readlabel(s1)))

\* FAT12(image): the images here are either blank, with an all-zero boot
\* sector whose FAT count of 0 _readbpb refuses, or carry the boot sector
\* that format writes, with an EBPB
FAT12(s) ==
    IF ~s.has_ebpb THEN Raise(s, "ValueError") ELSE _readfs(s)

\* a blank FloppyImage, and no object yet
BlankImage(now) ==
    [fat |-> [i \in 0 .. (FatLen - 1) |-> 0],
     dircluster |-> 1, dirparents |-> << >>,
     label_ |-> << >>, label_isstr |-> TRUE, label |-> << >>, label_set |-> FALSE,
     write_label |-> FALSE, has_ebpb |-> FALSE,
     bpb_label |-> [i \in 1 .. 11 |-> 0],
     dfat |-> [j \in 0 .. (fat_count * FatBytes - 1) |-> 0],
     sec |-> [n \in SectorDomain |-> ZeroBlocks(SlotsPerSector)],
     now |-> now, err |-> NoErr]

\* the four bytes format writes at the start of each FAT copy
FatPreamble == << 240, 255, 255, 0 >>

format(s, label) ==
    IF Len(label) > 11 THEN Raise(s, "ValueError")
    ELSE With(_readfs([s EXCEPT !.has_ebpb = TRUE, !.bpb_label = LJust(label, 11),
                              !.dfat = [j \in DOMAIN s.dfat |->
                                    IF j % FatBytes < 4 THEN FatPreamble[(j % FatBytes) + 1]
                                    ELSE s.dfat[j]]]), LAMBDA s2 :
            IF Failed(s2) THEN s2
            ELSE _updatelabel([s2 EXCEPT !.write_label = TRUE]))

(***************************************************************************)
(* Cluster allocation.                                                     *)
(***************************************************************************)
\* the highest index from 2 on whose entry is 0, None when there is none
FirstFree_highest(fat) ==
    IF \E i \in 2 .. (FatLen - 1) : fat[i] = 0
    THEN CHOOSE i \in 2 .. (FatLen - 1) :
            /\ fat[i] = 0
            /\ \A j \in (i + 1) .. (FatLen - 1) : fat[j] # 0
    ELSE None

\* the lowest index from 2 on whose entry is 0, None when there is none
FirstFree(fat) ==
    IF \E i \in 2 .. (FatLen - 1) : fat[i] = 0
    THEN CHOOSE i \in 2 .. (FatLen - 1) :
            /\ fat[i] = 0
            /\ \A j \in 2 .. (i - 1) : fat[j] # 0
    ELSE None

\* attach_to = None for no cluster to attach to; val is the cluster returned
_alloccluster(s, attach_to) ==
    With(FirstFree(s.fat), LAMBDA i :
    With([s.fat EXCEPT ![i] = EndOfChain], LAMBDA fat1 :
        IF attach_to # None /\ ~_isvalidcluster(attach_to)
        THEN [s |-> Raise(s, "AssertionError"), val |-> None]
        ELSE IF i = None
        THEN [s |-> Raise(s, "IOError"), val |-> None]
        ELSE IF attach_to = None \/ attach_to = 0
        THEN [s |-> [s EXCEPT !.fat = fat1], val |-> i]
        ELSE IF ~FatIndexOk(s, attach_to)
        THEN [s |-> Raise([s EXCEPT !.fat = fat1], "IndexError"), val |-> None]
        ELSE [s |-> [s EXCEPT !.fat = [fat1 EXCEPT ![attach_to] = i]], val |-> i]))

(***************************************************************************)
(* Directory slots.                                                        *)
(***************************************************************************)
\* how many clusters a chain walk may visit before the model calls it a hang
Fuel == FatLen + 2

\* a variant that hands out the last slot when none is free
_allocdirentrycluster_last(sector, offset) ==
    LET free == {i \in SlotAt(offset) .. Len(sector) : sector[i].name[1] \in {0, FreeMark}}
    IN  IF free = {} THEN Len(sector) * EntryBytes - EntryBytes
        ELSE (CHOOSE i \in free : \A j \in free : i <= j) * EntryBytes - EntryBytes

\* the byte offset of the first free slot of `sector` at or after `offset`
_allocdirentrycluster(sector, offset) ==
    LET free == {i \in SlotAt(offset) .. Len(sector) : sector[i].name[1] \in {0, FreeMark}}
    IN  IF free = {} THEN None
        ELSE (CHOOSE i \in free : \A j \in free : i <= j) * EntryBytes - EntryBytes

\* the while loop of _allocdirentry over a subdirectory's chain
RECURSIVE AllocDirWalk(_, _, _, _, _)
AllocDirWalk(s, cluster, pcluster, offset, fuel) ==
    IF fuel = 0
    THEN [err |-> "Hang", found |-> FALSE, cluster |-> cluster, offset |-> None, pcluster |-> pcluster]
    ELSE IF _cluster_is_end_of_chain(cluster)
    THEN [err |-> NoErr, found |-> FALSE, cluster |-> cluster, offset |-> None, pcluster |-> pcluster]
    ELSE IF ~CanReadCluster(cluster)
    THEN [err |-> "ValueError", found |-> FALSE, cluster |-> cluster, offset |-> None, pcluster |-> pcluster]
    ELSE With(_allocdirentrycluster(_readcluster(s, cluster), offset), LAMBDA noffset :
        IF noffset # None
        THEN [err |-> NoErr, found |-> TRUE, cluster |-> cluster,
              offset |-> noffset, pcluster |-> pcluster]
        ELSE IF ~FatIndexOk(s, cluster)
        THEN [err |-> "IndexError", found |-> FALSE, cluster |-> cluster, offset |-> None, pcluster |-> cluster]
        ELSE AllocDirWalk(s, s.fat[cluster], cluster, 0, fuel - 1))

DirSlot(s, dcluster, cluster, offset) ==
    [s |-> s, dcluster |-> dcluster, cluster |-> cluster, offset |-> offset]

\* (orig_cluster, dir_cluster, dir_offset)
_allocdirentry(s, cluster, offset) ==
    IF cluster = 1
    THEN With(_allocdirentrycluster(ReadRoot(s), offset), LAMBDA noffset :
            IF noffset = None
            THEN DirSlot(Raise(s, "IOError"), None, None, None)
            ELSE DirSlot(s, 1, 1, noffset))
    ELSE With(AllocDirWalk(s, cluster, cluster, offset, Fuel), LAMBDA w :
            IF w.err # NoErr THEN DirSlot(Raise(s, w.err), None, None, None)
            ELSE IF w.found THEN DirSlot(s, cluster, w.cluster, w.offset)
            ELSE With(_alloccluster(s, w.pcluster), LAMBDA a :
                IF Failed(a.s) THEN DirSlot(a.s, None, None, None)
                ELSE With(_writecluster(a.s, a.val, ZeroBlocks(SlotsPerSector)), LAMBDA z :
                    IF Failed(z) THEN DirSlot(z, None, None, None)
                    ELSE DirSlot(z, cluster, a.val, 0))))

\* the byte offset of the entry called `name` in `sector` at or after the
\* block index i, None when the directory ends first; name is upper case
RECURSIVE ResolveScan(_, _, _)
ResolveScan(name, sector, i) ==
    IF i > Len(sector) THEN [err |-> NoErr, offset |-> None]
    ELSE With(_parsedirentry(sector[i]), LAMBDA e :
            IF e.err # NoErr THEN [err |-> e.err, offset |-> None]
            ELSE IF e.exists = "None" THEN [err |-> NoErr, offset |-> None]
            ELSE IF e.exists = "True" /\ BitAnd(e.attributes, 200) = 0
                    /\ Upper(e.filename) = name
            THEN [err |-> NoErr, offset |-> (i - 1) * EntryBytes]
            ELSE ResolveScan(name, sector, i + 1))

_resolvefilesector(name, sector, offset) == ResolveScan(Upper(name), sector, SlotAt(offset))

Found(err, cluster, offset) == [err |-> err, cluster |-> cluster, offset |-> offset]

\* the while loop of _resolvefile over a subdirectory's chain
RECURSIVE ResolveWalk(_, _, _, _, _)
ResolveWalk(s, name, cluster, offset, fuel) ==
    IF fuel = 0 THEN Found("Hang", None, None)
    ELSE IF _cluster_is_end_of_chain(cluster) THEN Found(NoErr, None, None)
    ELSE IF ~CanReadCluster(cluster) THEN Found("ValueError", None, None)
    ELSE With(_resolvefilesector(name, _readcluster(s, cluster), offset), LAMBDA r :
            IF r.err # NoErr THEN Found(r.err, None, None)
            ELSE IF r.offset # None THEN Found(NoErr, cluster, r.offset)
            ELSE IF ~FatIndexOk(s, cluster) THEN Found("IndexError", None, None)
            ELSE ResolveWalk(s, name, s.fat[cluster], 0, fuel - 1))

\* (dircluster, diroffset)
_resolvefile(s, name, cluster) ==
    IF cluster = 1
    THEN With(_resolvefilesector(name, ReadRoot(s), 0), LAMBDA r :
            IF r.err # NoErr THEN Found(r.err, None, None)
            ELSE IF r.offset = None THEN Found(NoErr, None, None)
            ELSE Found(NoErr, 1, r.offset))
    ELSE ResolveWalk(s, name, cluster, 0, Fuel)

CanReadDirEntry(cluster) == cluster = 1 \/ CanReadCluster(cluster)

_readdirentry(s, cluster, offset) ==
    IF cluster = 1 THEN ReadRoot(s)[SlotAt(offset)]
    ELSE _readcluster(s, cluster)[SlotAt(offset)]

_writedirentry(s, cluster, offset, entry) ==
    IF cluster = 1
    THEN WriteRoot(s, [ReadRoot(s) EXCEPT ![SlotAt(offset)] = entry])
    ELSE IF ~CanReadCluster(cluster) THEN Raise(s, "ValueError")
    ELSE _writecluster(s, cluster,
                       [_readcluster(s, cluster) EXCEPT ![SlotAt(offset)] = entry])

\* In a subdirectory the test that follows the write takes len() of the
\* cluster number and raises TypeError, so the chain is never shortened.
_rmdirentry(s, cluster, offset, first_cluster) ==
    IF cluster = 1
    THEN WriteRoot(s, [ReadRoot(s) EXCEPT ![SlotAt(offset)].name[1] = FreeMark])
    ELSE IF ~CanReadCluster(cluster) THEN Raise(s, "ValueError")
    ELSE With(_writecluster(s, cluster,
                [_readcluster(s, cluster) EXCEPT ![SlotAt(offset)].name[1] = FreeMark]),
              LAMBDA w : IF Failed(w) THEN w ELSE Raise(w, "TypeError"))

(***************************************************************************)
(* Paths.  A path string is kept as the sequence of its components, the    *)
(* pieces between its slashes: "/D/F" is << "", "D", "F" >>, "/" is        *)
(* << "", "" >>, and the empty string is << "" >>.                         *)
(***************************************************************************)
EmptyStr == << >>
EmptyPath == << EmptyStr >>
DotName == << Dot >>
DotDotName == << Dot, Dot >>

\* (head, tail): the path up to its first slash, and what follows it
_splitpath(path) ==
    [head |-> path[1],
     tail |-> IF Len(path) = 1 THEN EmptyPath ELSE Tail(path)]

basename(path) == path[Len(path)]

FrontOf(seq) == SubSeq(seq, 1, Len(seq) - 1)

\* parents is the list _resolvedir works on; while alias holds it is the
\* very list self._dirparents, so that appending to it and popping from it
\* change self._dirparents too.  shared is self._dirparents at the return.
ResolvedDir(s, err, cluster, parents, alias, last) ==
    [err |-> err, cluster |-> cluster, parents |-> parents,
     shared |-> IF alias THEN last ELSE s.dirparents]

RECURSIVE ResolveDirLoop(_, _, _, _, _)
ResolveDirLoop(s, path, cluster, parents, alias) ==
    IF path = EmptyPath THEN ResolvedDir(s, NoErr, cluster, parents, alias, parents)
    ELSE
    With(_splitpath(path).head, LAMBDA name :
    With(_splitpath(path).tail, LAMBDA rest :
    With(_resolvefile(s, name, cluster), LAMBDA f :
    With(_parsedirentry(_readdirentry(s, f.cluster, f.offset)), LAMBDA entry :
    With(Append(parents, cluster), LAMBDA pushed :
        IF name = EmptyStr /\ rest = EmptyPath
        THEN ResolvedDir(s, NoErr, cluster, parents, alias, parents)
        ELSE IF name = EmptyStr
        THEN ResolveDirLoop(s, rest, 1, << >>, FALSE)
        ELSE IF f.err # NoErr
        THEN ResolvedDir(s, f.err, None, << >>, alias, parents)
        ELSE IF f.cluster = None
        THEN (IF cluster = 1 /\ name = DotName
              THEN ResolveDirLoop(s, rest, cluster, parents, alias)
              ELSE ResolvedDir(s, NoErr, None, << >>, alias, parents))
        ELSE IF entry.err # NoErr
        THEN ResolvedDir(s, entry.err, None, << >>, alias, parents)
        ELSE IF entry.exists # "True"
        THEN ResolvedDir(s, NoErr, None, << >>, alias, pushed)
        ELSE IF BitAnd(entry.attributes, 16) = 0
        THEN ResolvedDir(s, NoErr, None, << >>, alias, pushed)
        ELSE IF entry.cluster # 0
        THEN ResolveDirLoop(s, rest, entry.cluster, pushed, alias)
        ELSE IF name \notin {DotName, DotDotName}
        THEN ResolvedDir(s, "AssertionError", None, << >>, alias, pushed)
        ELSE IF name = DotName
        THEN ResolveDirLoop(s, rest, cluster, parents, alias)
        ELSE IF parents = << >>
        THEN ResolvedDir(s, "IndexError", None, << >>, alias, parents)
        ELSE ResolveDirLoop(s, rest, parents[Len(parents)], FrontOf(parents), alias))))))

\* (cluster, parents), the cluster None when the path names no directory
_resolvedir(s, path, at_root) ==
    ResolveDirLoop(s, path,
                   IF at_root THEN 1 ELSE s.dircluster,
                   IF at_root THEN << >> ELSE s.dirparents,
                   ~at_root)

\* what the call leaves of the object: self._dirparents as the walk left it
AfterResolveDir(s, r) == [s EXCEPT !.dirparents = r.shared]

ResolvedPath(err, cluster, ocluster, offset) ==
    [err |-> err, cluster |-> cluster, ocluster |-> ocluster, offset |-> offset]

\* The directory found for a component is checked to be a directory, and
\* its starting cluster is read into scluster, but the walk goes on in
\* `cluster`: every component is looked up in the directory the walk began in.
RECURSIVE ResolvePathLoop(_, _, _, _, _)
ResolvePathLoop(s, path, cluster, ocluster, offset) ==
    IF path = EmptyPath
    THEN (IF ocluster = None THEN ResolvedPath(NoErr, None, None, None)
          ELSE ResolvedPath(NoErr, cluster, ocluster, offset))
    ELSE
    With(_splitpath(path).head, LAMBDA name :
    With(_splitpath(path).tail, LAMBDA rest :
    With(_resolvefile(s, name, cluster), LAMBDA f :
    With(_parsedirentry(_readdirentry(s, f.cluster, f.offset)), LAMBDA entry :
        IF name = EmptyStr /\ rest = EmptyPath
        THEN (IF ocluster = None THEN ResolvedPath(NoErr, None, None, None)
              ELSE ResolvedPath(NoErr, cluster, ocluster, offset))
        ELSE IF name = EmptyStr
        THEN ResolvePathLoop(s, rest, 1, ocluster, offset)
        ELSE IF f.err # NoErr THEN ResolvedPath(f.err, None, None, None)
        ELSE IF f.cluster = None
        THEN (IF cluster = 1 /\ name = DotName
              THEN ResolvePathLoop(s, rest, cluster, None, None)
              ELSE ResolvedPath(NoErr, None, None, None))
        ELSE IF rest = EmptyPath
        THEN ResolvedPath(NoErr, cluster, f.cluster, f.offset)
        ELSE IF entry.err # NoErr THEN ResolvedPath(entry.err, None, None, None)
        ELSE IF entry.exists # "True" THEN ResolvedPath(NoErr, None, None, None)
        ELSE IF BitAnd(entry.attributes, 16) = 0
        THEN ResolvedPath(NoErr, None, None, None)
        ELSE ResolvePathLoop(s, rest, cluster, f.cluster, f.offset)))))

\* (dircluster, diroffset, fileoffset)
_resolvepath(s, path, at_root) ==
    ResolvePathLoop(s, path, IF at_root THEN 1 ELSE s.dircluster, None, None)

(***************************************************************************)
(* Creating entries.                                                       *)
(***************************************************************************)
Created(s, cluster, ocluster, offset) ==
    [s |-> s, cluster |-> cluster, ocluster |-> ocluster, offset |-> offset]

\* what follows the while loop of _createfile: the new entry in `cluster`
CreateEntry(s, name, cluster) ==
    IF name \in {DotName, DotDotName}
    THEN Created(Raise(s, "ValueError"), None, None, None)
    ELSE With(_makedirentry(name, FALSE, 32, NoDate, s.now, 0, 0), LAMBDA made :
        IF made.err # NoErr THEN Created(Raise(s, made.err), None, None, None)
        ELSE With(_allocdirentry(s, cluster, 0), LAMBDA a :
            IF Failed(a.s) THEN Created(a.s, None, None, None)
            ELSE With(_writedirentry(a.s, a.cluster, a.offset, made.entry), LAMBDA w :
                IF Failed(w) THEN Created(w, None, None, None)
                ELSE Created(w, cluster, a.cluster, a.offset))))

\* As in _resolvepath, the walk never enters the directories it finds.
RECURSIVE CreateFileLoop(_, _, _)
CreateFileLoop(s, path, cluster) ==
    With(_splitpath(path).head, LAMBDA name :
    With(_splitpath(path).tail, LAMBDA rest :
    With(_resolvefile(s, name, cluster), LAMBDA f :
    With(_parsedirentry(_readdirentry(s, f.cluster, f.offset)), LAMBDA entry :
        IF name = EmptyStr /\ rest = EmptyPath THEN CreateEntry(s, name, cluster)
        ELSE IF name = EmptyStr THEN CreateFileLoop(s, rest, 1)
        ELSE IF f.err # NoErr THEN Created(Raise(s, f.err), None, None, None)
        ELSE IF rest = EmptyPath
        THEN (IF f.cluster = None THEN CreateEntry(s, name, cluster)
              ELSE Created(Raise(s, "ValueError"), None, None, None))
        ELSE IF f.cluster = None
        THEN (IF cluster = 1 /\ name = DotName
              THEN CreateFileLoop(s, rest, cluster)
              ELSE Created(s, None, None, None))
        ELSE IF entry.err # NoErr THEN Created(Raise(s, entry.err), None, None, None)
        ELSE IF entry.exists # "True" THEN Created(s, None, None, None)
        ELSE IF BitAnd(entry.attributes, 16) = 0 THEN Created(s, None, None, None)
        ELSE CreateFileLoop(s, rest, cluster)))))

\* with the empty path the loop never runs and `name` is unbound
_createfile(s, path, at_root) ==
    IF path = EmptyPath
    THEN Created(Raise(s, "UnboundLocalError"), None, None, None)
    ELSE CreateFileLoop(s, path, IF at_root THEN 1 ELSE s.dircluster)

\* path[:-1] of a path that ends with a slash
StripSlash(path) ==
    IF Len(path) >= 2 /\ path[Len(path)] = EmptyStr THEN FrontOf(path) ELSE path

\* The new cluster is taken before the parent is looked for, and its blocks
\* from the third on stay what they were.
_createdirectory(s, path0, at_root, chdir) ==
    With(StripSlash(path0), LAMBDA path :
    IF path = EmptyPath THEN Created(Raise(s, "ValueError"), None, None, None)
    ELSE With(_alloccluster(s, None), LAMBDA n :
    IF Failed(n.s) THEN Created(n.s, None, None, None)
    ELSE With(_createfile(n.s, path, at_root), LAMBDA c :
    IF Failed(c.s) THEN c
    ELSE IF c.cluster = None \/ c.cluster = 0 THEN c
    ELSE With(_makedirentry(basename(path), FALSE, 16, NoDate, s.now, n.val, 0), LAMBDA e :
    IF e.err # NoErr THEN Created(Raise(c.s, e.err), None, None, None)
    ELSE With(_writedirentry(c.s, c.ocluster, c.offset, e.entry), LAMBDA w1 :
    IF Failed(w1) THEN Created(w1, None, None, None)
    ELSE With(_writedirentry(w1, n.val, 0,
                 _makedirentry(DotName, TRUE, 16, NoDate, s.now, 0, 0).entry), LAMBDA w2 :
    IF Failed(w2) THEN Created(w2, None, None, None)
    ELSE With(_writedirentry(w2, n.val, EntryBytes,
                 _makedirentry(DotDotName, TRUE, 16, NoDate, s.now, 0, 0).entry), LAMBDA w3 :
    IF Failed(w3) THEN Created(w3, None, None, None)
    ELSE Created(IF chdir THEN [w3 EXCEPT !.dircluster = n.val] ELSE w3,
                 c.cluster, c.ocluster, c.offset))))))))

(***************************************************************************)
(* File contents.  A file's bytes are a sequence of 32-byte blocks, and    *)
(* len(contents) is EntryBytes times their number.                         *)
(***************************************************************************)
bpc == bytes_per_sector * sectors_per_cluster

ByteLen(contents) == Len(contents) * EntryBytes

\* (size + (bpc - 1)) // bpc
ClustersFor(size) == (size + (bpc - 1)) \div bpc

\* data[: n] left out: the whole last cluster is returned
Upto_whole(data, n) == data

\* the blocks of data[: n] for a byte count n
Upto(data, n) ==
    SubSeq(data, 1, IF n >= Len(data) * EntryBytes THEN Len(data)
                    ELSE (n + EntryBytes - 1) \div EntryBytes)

RECURSIVE ReadLoop(_, _, _, _, _)
ReadLoop(s, cluster, i, file_size, fuel) ==
    IF i >= file_size THEN [err |-> NoErr, data |-> << >>]
    ELSE IF fuel = 0 THEN [err |-> "Hang", data |-> << >>]
    ELSE IF ~CanReadCluster(cluster) THEN [err |-> "ValueError", data |-> << >>]
    ELSE IF ~FatIndexOk(s, cluster) THEN [err |-> "IndexError", data |-> << >>]
    ELSE With(ReadLoop(s, s.fat[cluster], i + bpc, file_size, fuel - 1), LAMBDA r :
            [err |-> r.err,
             data |-> Upto(_readcluster(s, cluster), file_size - i) \o r.data])

_readfile(s, fcluster, foffset) ==
    With(_parsedirentry(_readdirentry(s, fcluster, foffset)), LAMBDA e :
        IF e.err # NoErr THEN [err |-> e.err, data |-> << >>]
        ELSE IF e.exists # "True" THEN [err |-> "TypeError", data |-> << >>]
        ELSE IF BitAnd(e.attributes, 16) # 0 THEN [err |-> "ValueError", data |-> << >>]
        ELSE ReadLoop(s, e.cluster, 0, e.file_size, Fuel))

read_file(s, path) ==
    With(_resolvepath(s, path, FALSE), LAMBDA r :
        IF r.err # NoErr THEN [err |-> r.err, data |-> << >>]
        ELSE IF r.cluster = None THEN [err |-> "FileNotFoundError", data |-> << >>]
        ELSE _readfile(s, r.ocluster, r.offset))

\* the walk to the last cluster of a chain
RECURSIVE LastCluster(_, _, _)
LastCluster(s, lcluster, fuel) ==
    IF fuel = 0 THEN [err |-> "Hang", val |-> lcluster]
    ELSE IF ~FatIndexOk(s, lcluster) THEN [err |-> "IndexError", val |-> lcluster]
    ELSE IF _cluster_is_end_of_chain(s.fat[lcluster]) THEN [err |-> NoErr, val |-> lcluster]
    ELSE LastCluster(s, s.fat[lcluster], fuel - 1)

\* for _ in range(file_clusters, new_file_clusters): one more cluster each
RECURSIVE ExtendChain(_, _, _)
ExtendChain(s, lcluster, k) ==
    IF k <= 0 THEN s
    ELSE With(_alloccluster(s, lcluster), LAMBDA a :
            IF Failed(a.s) THEN a.s ELSE ExtendChain(a.s, a.val, k - 1))

\* the k clusters of data written from block index i of contents on
RECURSIVE WriteData(_, _, _, _, _)
WriteData(s, contents, datacluster, i, k) ==
    IF k = 0 THEN s
    ELSE IF ~_isvalidcluster(datacluster) THEN Raise(s, "AssertionError")
    ELSE With(SubSeq(contents, i, IF i + SlotsPerSector - 1 < Len(contents)
                                  THEN i + SlotsPerSector - 1 ELSE Len(contents)), LAMBDA have :
         With(_writecluster(s, datacluster, have \o ZeroBlocks(SlotsPerSector - Len(have))),
              LAMBDA s1 :
            IF Failed(s1) THEN s1
            ELSE IF ~FatIndexOk(s1, datacluster) THEN Raise(s1, "IndexError")
            ELSE WriteData(s1, contents, s1.fat[datacluster], i + SlotsPerSector, k - 1)))

\* The truncation loop tests fcluster, the cluster of the directory that
\* holds the entry, which the loop never changes: for an entry of the root
\* (fcluster = 1) nothing is freed, and for an entry of a subdirectory the
\* whole chain is freed from its first cluster on until reading the FAT
\* beyond its end raises IndexError.
RECURSIVE TruncateLoop(_, _, _, _)
TruncateLoop(s, fcluster, cluster, fuel) ==
    IF ~_isvalidcluster(fcluster) THEN [s |-> s, cluster |-> cluster]
    ELSE IF fuel = 0 THEN [s |-> Raise(s, "Hang"), cluster |-> cluster]
    ELSE IF ~FatIndexOk(s, cluster) THEN [s |-> Raise(s, "IndexError"), cluster |-> cluster]
    ELSE TruncateLoop([s EXCEPT !.fat[cluster] = 0], fcluster, s.fat[cluster], fuel - 1)

_writefile(s, fcluster, foffset, contents, ignore_readonly) ==
    With(_parsedirentry(_readdirentry(s, fcluster, foffset)), LAMBDA e :
    With(ClustersFor(ByteLen(contents)), LAMBDA new_file_clusters :
    With(IF e.cluster = 0 THEN 1 ELSE ClustersFor(e.file_size), LAMBDA file_clusters :
    IF e.err # NoErr THEN Raise(s, e.err)
    ELSE IF e.exists # "True" THEN Raise(s, "TypeError")
    ELSE IF BitAnd(e.attributes, 16) # 0 THEN Raise(s, "ValueError")
    ELSE IF ~ignore_readonly /\ BitAnd(e.attributes, 1) = 1 THEN Raise(s, "ValueError")
    ELSE IF e.cluster = 0 /\ e.file_size # 0 THEN Raise(s, "AssertionError")
    ELSE IF e.cluster = 0 /\ Len(contents) = 0 THEN s
    ELSE With(IF e.cluster = 0 THEN _alloccluster(s, None)
              ELSE [s |-> s, val |-> e.cluster], LAMBDA a :
    IF Failed(a.s) THEN a.s
    ELSE With(LastCluster(a.s, a.val, Fuel), LAMBDA l :
    IF l.err # NoErr THEN Raise(a.s, l.err)
    ELSE With(ExtendChain(a.s, l.val, new_file_clusters - file_clusters), LAMBDA s2 :
    IF Failed(s2) THEN s2
    ELSE With(WriteData(s2, contents, a.val, 1, new_file_clusters), LAMBDA s3 :
    IF Failed(s3) THEN s3
    ELSE With(IF file_clusters > new_file_clusters
              THEN TruncateLoop(s3, fcluster, a.val, Fuel + 2)
              ELSE [s |-> s3, cluster |-> a.val], LAMBDA t :
    IF Failed(t.s) THEN t.s
    ELSE With(_makedirentry(e.filename, FALSE, e.attributes, NoDate, s.now,
                            t.cluster, ByteLen(contents)), LAMBDA made :
    IF made.err # NoErr THEN Raise(t.s, made.err)
    ELSE With(_writedirentry(t.s, fcluster, foffset, made.entry), LAMBDA s4 :
    IF Failed(s4) THEN s4
    ELSE commit(s4)))))))))))

\* write_file that never looks at the read-only bit
write_file_forced(s, path, contents, ignore_readonly) ==
    With(_resolvepath(s, path, FALSE), LAMBDA r :
        IF r.err # NoErr THEN Raise(s, r.err)
        ELSE IF r.cluster # None
        THEN _writefile(s, r.ocluster, r.offset, contents, TRUE)
        ELSE With(_createfile(s, path, FALSE), LAMBDA c :
                IF Failed(c.s) THEN c.s
                ELSE IF c.cluster = None THEN Raise(c.s, "FileNotFoundError")
                ELSE _writefile(c.s, c.ocluster, c.offset, contents, TRUE)))

write_file(s, path, contents, ignore_readonly) ==
    With(_resolvepath(s, path, FALSE), LAMBDA r :
        IF r.err # NoErr THEN Raise(s, r.err)
        ELSE IF r.cluster # None
        THEN _writefile(s, r.ocluster, r.offset, contents, ignore_readonly)
        ELSE With(_createfile(s, path, FALSE), LAMBDA c :
                IF Failed(c.s) THEN c.s
                ELSE IF c.cluster = None THEN Raise(c.s, "FileNotFoundError")
                ELSE _writefile(c.s, c.ocluster, c.offset, contents, ignore_readonly)))

(***************************************************************************)
(* Deleting, removing, moving.                                             *)
(***************************************************************************)
\* while self._isvalidcluster(cluster): free it and go on to the next
RECURSIVE FreeChain(_, _, _)
FreeChain(s, cluster, fuel) ==
    IF ~_isvalidcluster(cluster) THEN [s |-> s, cluster |-> cluster]
    ELSE IF fuel = 0 THEN [s |-> Raise(s, "Hang"), cluster |-> cluster]
    ELSE IF ~FatIndexOk(s, cluster) THEN [s |-> Raise(s, "IndexError"), cluster |-> cluster]
    ELSE FreeChain([s EXCEPT !.fat[cluster] = 0], s.fat[cluster], fuel - 1)

delete_file(s, path, ignore_readonly) ==
    With(_resolvepath(s, path, FALSE), LAMBDA r :
    IF r.err # NoErr THEN Raise(s, r.err)
    ELSE IF r.cluster = None THEN Raise(s, "FileNotFoundError")
    ELSE With(_parsedirentry(_readdirentry(s, r.ocluster, r.offset)), LAMBDA e :
    IF e.err # NoErr THEN Raise(s, e.err)
    ELSE IF e.exists # "True" THEN Raise(s, "TypeError")
    ELSE IF BitAnd(e.attributes, 16) # 0 THEN Raise(s, "ValueError")
    ELSE IF ~ignore_readonly /\ BitAnd(e.attributes, 1) = 1 THEN Raise(s, "ValueError")
    ELSE IF r.cluster # 1 /\ e.filename \in {DotName, DotDotName}
    THEN Raise(s, "ValueError")
    ELSE With(FreeChain(s, e.cluster, Fuel), LAMBDA f :
    IF Failed(f.s) THEN f.s
    ELSE With(_rmdirentry(f.s, r.ocluster, r.offset, f.cluster), LAMBDA d :
    IF Failed(d) THEN d
    ELSE commit(d)))))

create_directory(s, path, chdir) ==
    With(_createdirectory(s, path, FALSE, chdir), LAMBDA c :
        IF Failed(c.s) THEN c.s ELSE commit(c.s))

\* remove_directory calls _isemptydir without self: the name is looked up
\* as a global, which the module does not define, and the call raises
\* NameError for every directory.  What follows it never runs.
remove_directory(s, path) ==
    With(_resolvepath(s, path, FALSE), LAMBDA r :
    IF r.err # NoErr THEN Raise(s, r.err)
    ELSE IF r.cluster = None THEN Raise(s, "FileNotFoundError")
    ELSE With(_parsedirentry(_readdirentry(s, r.ocluster, r.offset)), LAMBDA e :
    IF e.err # NoErr THEN Raise(s, e.err)
    ELSE IF e.exists # "True" THEN Raise(s, "TypeError")
    ELSE IF BitAnd(e.attributes, 16) = 0 THEN Raise(s, "ValueError")
    ELSE Raise(s, "NameError")))

\* move tests `filename` before assigning it (UnboundLocalError unless the
\* item was looked up from the root), and allocates the new slot in the
\* chain of the item's own starting cluster, not in the folder.
move(s, path, folder) ==
    With(_resolvepath(s, path, FALSE), LAMBDA r :
    IF r.err # NoErr THEN Raise(s, r.err)
    ELSE With(_resolvedir(s, folder, FALSE), LAMBDA d :
    With(AfterResolveDir(s, d), LAMBDA s1 :
    IF d.err # NoErr THEN Raise(s1, d.err)
    ELSE IF r.cluster = None THEN Raise(s1, "FileNotFoundError")
    ELSE IF d.cluster = None THEN Raise(s1, "FileNotFoundError")
    ELSE IF r.cluster # 1 THEN Raise(s1, "UnboundLocalError")
    ELSE IF r.cluster = d.cluster THEN s1
    ELSE With(_readdirentry(s1, r.ocluster, r.offset), LAMBDA oentry :
    With(_parsedirentry(oentry), LAMBDA e :
    IF e.err # NoErr THEN Raise(s1, e.err)
    ELSE IF e.exists # "True" THEN Raise(s1, "TypeError")
    ELSE With(IF BitAnd(e.attributes, 16) # 0 /\ e.cluster = s1.dircluster
              THEN _chdirroot(s1) ELSE s1, LAMBDA s2 :
    With(_allocdirentry(s2, e.cluster, 0), LAMBDA a :
    IF Failed(a.s) THEN a.s
    ELSE With(_writedirentry(a.s, a.cluster, a.offset, oentry), LAMBDA w :
    IF Failed(w) THEN w
    ELSE With(_rmdirentry(w, r.ocluster, r.offset, e.cluster), LAMBDA x :
    IF Failed(x) THEN x
    ELSE commit(x))))))))))

\* chdir that keeps the chain of parents of the directory it leaves
chdir_cluster_only(s, path) ==
    With(_resolvedir(s, path, FALSE), LAMBDA d :
        IF d.err # NoErr THEN Raise(s, d.err)
        ELSE IF d.cluster = None THEN Raise(s, "FileNotFoundError")
        ELSE [s EXCEPT !.dircluster = d.cluster])

chdir(s, path) ==
    With(_resolvedir(s, path, FALSE), LAMBDA d :
    With(AfterResolveDir(s, d), LAMBDA s1 :
        IF d.err # NoErr THEN Raise(s1, d.err)
        ELSE IF d.cluster = None THEN Raise(s1, "FileNotFoundError")
        ELSE [s1 EXCEPT !.dircluster = d.cluster, !.dirparents = d.parents]))

\* the offset of the first live entry from block index i on that is a
\* directory whose starting cluster is dir
RECURSIVE _resolvedirsector(_, _, _)
_resolvedirsector(dir, sector, i) ==
    IF i > Len(sector) THEN [err |-> NoErr, offset |-> None]
    ELSE With(_parsedirentry(sector[i]), LAMBDA e :
            IF e.err # NoErr THEN [err |-> e.err, offset |-> None]
            ELSE IF e.exists = "None" THEN [err |-> NoErr, offset |-> None]
            ELSE IF e.exists = "True" /\ BitAnd(e.attributes, 200) = 0
                    /\ BitAnd(e.attributes, 16) = 16 /\ e.cluster = dir
            THEN [err |-> NoErr, offset |-> (i - 1) * EntryBytes]
            ELSE _resolvedirsector(dir, sector, i + 1))

\* in a subdirectory the loop body calls _readcluster with two arguments,
\* which raises TypeError
_resolvedirbycluster(s, dir, cluster, offset) ==
    IF cluster = 1
    THEN With(_resolvedirsector(dir, ReadRoot(s), SlotAt(offset)), LAMBDA r :
            IF r.err # NoErr THEN Found(r.err, None, None)
            ELSE IF r.offset = None THEN Found(NoErr, None, None)
            ELSE Found(NoErr, 1, r.offset))
    ELSE IF _cluster_is_end_of_chain(cluster) THEN Found(NoErr, None, None)
    ELSE Found("TypeError", None, None)

\* the while loop of getdir; parents is what the iterator has left
RECURSIVE GetdirLoop(_, _, _, _)
GetdirLoop(s, curdir, parents, tokens) ==
    IF curdir = s.dircluster THEN [err |-> NoErr, tokens |-> tokens]
    ELSE IF parents = << >> THEN [err |-> "StopIteration", tokens |-> tokens]
    ELSE With(_resolvedirbycluster(s, Head(parents), curdir, 0), LAMBDA r :
        IF r.err # NoErr THEN [err |-> r.err, tokens |-> tokens]
        ELSE IF r.cluster = None THEN [err |-> "AssertionError", tokens |-> tokens]
        ELSE With(_parsedirentry(_readdirentry(s, r.cluster, r.offset)), LAMBDA e :
            IF e.err # NoErr THEN [err |-> e.err, tokens |-> tokens]
            ELSE GetdirLoop(s, Head(parents), Tail(parents),
                            Append(tokens, e.filename))))

\* "/" + "/".join(tokens), as the sequence of its components
getdir(s) ==
    With(GetdirLoop(s, 1, s.dirparents, << >>), LAMBDA r :
        [err |-> r.err,
         path |-> IF r.err # NoErr THEN << >>
                  ELSE IF r.tokens = << >> THEN << EmptyStr, EmptyStr >>
                  ELSE << EmptyStr >> \o r.tokens])

(***************************************************************************)
(* Attributes, names, the label, copies.                                   *)
(***************************************************************************)
\* set_attributes with the old bits of the entry all kept
set_attributes_or(s, path, attrib) ==
    With(_resolvepath(s, path, FALSE), LAMBDA r :
    IF r.err # NoErr THEN Raise(s, r.err)
    ELSE IF r.cluster = None THEN Raise(s, "FileNotFoundError")
    ELSE With(_parsedirentry(_readdirentry(s, r.ocluster, r.offset)), LAMBDA e :
    IF e.err # NoErr THEN Raise(s, e.err)
    ELSE IF e.exists # "True" THEN Raise(s, "TypeError")
    ELSE IF r.cluster # 1 /\ e.filename \in {DotName, DotDotName}
    THEN Raise(s, "ValueError")
    ELSE With(_makedirentry(e.filename, FALSE,
                            BitOr(e.attributes, BitAnd(attrib, 39)),
                            e.modified, s.now, e.cluster, e.file_size), LAMBDA made :
    IF made.err # NoErr THEN Raise(s, made.err)
    ELSE _writedirentry(s, r.ocluster, r.offset, made.entry))))

\* the entry is rewritten in place; set_attributes does not commit
set_attributes(s, path, attrib) ==
    With(_resolvepath(s, path, FALSE), LAMBDA r :
    IF r.err # NoErr THEN Raise(s, r.err)
    ELSE IF r.cluster = None THEN Raise(s, "FileNotFoundError")
    ELSE With(_parsedirentry(_readdirentry(s, r.ocluster, r.offset)), LAMBDA e :
    IF e.err # NoErr THEN Raise(s, e.err)
    ELSE IF e.exists # "True" THEN Raise(s, "TypeError")
    ELSE IF r.cluster # 1 /\ e.filename \in {DotName, DotDotName}
    THEN Raise(s, "ValueError")
    ELSE With(_makedirentry(e.filename, FALSE,
                            BitOr(BitAnd(e.attributes, 216), BitAnd(attrib, 39)),
                            e.modified, s.now, e.cluster, e.file_size), LAMBDA made :
    IF made.err # NoErr THEN Raise(s, made.err)
    ELSE _writedirentry(s, r.ocluster, r.offset, made.entry))))

\* rename that stamps the entry with the time of the call
rename_now(s, path, name) ==
    With(_resolvepath(s, path, FALSE), LAMBDA r :
    IF r.err # NoErr THEN Raise(s, r.err)
    ELSE IF r.cluster = None THEN Raise(s, "FileNotFoundError")
    ELSE With(_parsedirentry(_readdirentry(s, r.ocluster, r.offset)), LAMBDA e :
    IF e.err # NoErr THEN Raise(s, e.err)
    ELSE IF e.exists # "True" THEN Raise(s, "TypeError")
    ELSE IF r.cluster # 1 /\ e.filename \in {DotName, DotDotName}
    THEN Raise(s, "ValueError")
    ELSE With(_makedirentry(name, FALSE, e.attributes, NoDate, s.now,
                            e.cluster, e.file_size), LAMBDA made :
    IF made.err # NoErr THEN Raise(s, made.err)
    ELSE _writedirentry(s, r.ocluster, r.offset, made.entry))))

\* rename does not look for an entry that already has the new name, and
\* does not commit
rename(s, path, name) ==
    With(_resolvepath(s, path, FALSE), LAMBDA r :
    IF r.err # NoErr THEN Raise(s, r.err)
    ELSE IF r.cluster = None THEN Raise(s, "FileNotFoundError")
    ELSE With(_parsedirentry(_readdirentry(s, r.ocluster, r.offset)), LAMBDA e :
    IF e.err # NoErr THEN Raise(s, e.err)
    ELSE IF e.exists # "True" THEN Raise(s, "TypeError")
    ELSE IF r.cluster # 1 /\ e.filename \in {DotName, DotDotName}
    THEN Raise(s, "ValueError")
    ELSE With(_makedirentry(name, FALSE, e.attributes, e.modified, s.now,
                            e.cluster, e.file_size), LAMBDA made :
    IF made.err # NoErr THEN Raise(s, made.err)
    ELSE _writedirentry(s, r.ocluster, r.offset, made.entry))))

\* set_label without the padding with spaces
set_label_unpadded(s, label) ==
    IF Len(label) > 11 THEN Raise(s, "ValueError")
    ELSE commit([s EXCEPT !.label = label, !.label_set = TRUE,
                          !.label_ = label, !.label_isstr = FALSE, !.write_label = TRUE])

\* the label is padded with spaces before its length is tested
set_label(s, label) ==
    With(LJust(label, 11), LAMBDA padded :
        IF Len(padded) > 11 THEN Raise(s, "ValueError")
        ELSE commit([s EXCEPT !.label = padded, !.label_set = TRUE,
                              !.label_ = padded, !.label_isstr = FALSE,
                              !.write_label = TRUE]))

\* what copy has at hand when it comes to write the data: the object, the
\* destination slot, and the source's bytes
Copying(s, ocluster, offset, data) ==
    [s |-> s, ocluster |-> ocluster, offset |-> offset, data |-> data]

CopyFails(s, e) == Copying(Raise(s, e), None, None, << >>)

\* copy, up to the call of _writefile.  A destination that is a directory
\* raises NameError: the call made for it names at_root, which copy does
\* not define.  `attributes | 0x20 & ~0x04` is attributes | 0x20.  The
\* destination entry is rewritten with cluster 0 whatever chain it had.
CopyEntry(s, source, destination, ignore_readonly) ==
    With(_resolvepath(s, source, FALSE), LAMBDA sr :
    With(_resolvepath(s, destination, FALSE), LAMBDA dr :
    IF sr.err # NoErr THEN CopyFails(s, sr.err)
    ELSE IF dr.err # NoErr THEN CopyFails(s, dr.err)
    ELSE IF sr.cluster = None THEN CopyFails(s, "FileNotFoundError")
    ELSE IF sr.ocluster = dr.ocluster /\ sr.offset = dr.offset
    THEN CopyFails(s, "ValueError")
    ELSE With(IF dr.cluster = None THEN _createfile(s, destination, FALSE)
              ELSE Created(s, dr.cluster, dr.ocluster, dr.offset), LAMBDA d :
    IF Failed(d.s) THEN Copying(d.s, None, None, << >>)
    ELSE IF d.cluster = None THEN CopyFails(d.s, "FileNotFoundError")
    ELSE With(_parsedirentry(_readdirentry(d.s, sr.ocluster, sr.offset)), LAMBDA e :
    With(_parsedirentry(_readdirentry(d.s, d.ocluster, d.offset)), LAMBDA de :
    IF e.err # NoErr THEN CopyFails(d.s, e.err)
    ELSE IF de.err # NoErr THEN CopyFails(d.s, de.err)
    ELSE IF de.exists # "True" THEN CopyFails(d.s, "TypeError")
    ELSE IF BitAnd(de.attributes, 16) = 16 THEN CopyFails(d.s, "NameError")
    ELSE IF ~ignore_readonly /\ BitAnd(de.attributes, 1) = 1
    THEN CopyFails(d.s, "ValueError")
    ELSE IF e.exists # "True" THEN CopyFails(d.s, "TypeError")
    ELSE With(_makedirentry(basename(destination), FALSE, BitOr(e.attributes, 32),
                            NoDate, s.now, 0, 0), LAMBDA made :
    IF made.err # NoErr THEN CopyFails(d.s, made.err)
    ELSE With(_writedirentry(d.s, d.ocluster, d.offset, made.entry), LAMBDA w :
    IF Failed(w) THEN Copying(w, None, None, << >>)
    ELSE With(_readfile(w, sr.ocluster, sr.offset), LAMBDA data :
    IF data.err # NoErr THEN CopyFails(w, data.err)
    ELSE Copying(w, d.ocluster, d.offset, data.data)))))))))

copy(s, source, destination, ignore_readonly) ==
    With(CopyEntry(s, source, destination, ignore_readonly), LAMBDA p :
        IF Failed(p.s) THEN p.s
        ELSE _writefile(p.s, p.ocluster, p.offset, p.data, TRUE))

(***************************************************************************)
(* Queries.                                                                *)
(***************************************************************************)
exists(s, path) ==
    With(_resolvepath(s, path, FALSE), LAMBDA r :
        [err |-> r.err, val |-> r.err = NoErr /\ r.cluster # None])

isfile(s, path) ==
    With(_resolvepath(s, path, FALSE), LAMBDA r :
    IF r.err # NoErr THEN [err |-> r.err, val |-> FALSE]
    ELSE IF r.cluster = None THEN [err |-> NoErr, val |-> FALSE]
    ELSE With(_parsedirentry(_readdirentry(s, r.ocluster, r.offset)), LAMBDA e :
    IF e.err # NoErr THEN [err |-> e.err, val |-> FALSE]
    ELSE [err |-> NoErr, val |-> BitAnd(e.attributes, 16) = 0]))

isdir(s, path) ==
    With(_resolvedir(s, path, FALSE), LAMBDA d :
        [err |-> d.err, val |-> d.err = NoErr /\ d.cluster # None])

\* the entries _allfilesin yields from block index i of a sector on
RECURSIVE AllFilesIn(_, _)
AllFilesIn(sector, i) ==
    IF i > Len(sector) THEN [err |-> NoErr, files |-> << >>]
    ELSE With(_parsedirentry(sector[i]), LAMBDA e :
        IF e.err # NoErr THEN [err |-> e.err, files |-> << >>]
        ELSE IF e.exists = "None" THEN [err |-> NoErr, files |-> << >>]
        ELSE With(AllFilesIn(sector, i + 1), LAMBDA r :
            IF e.exists = "False" \/ BitAnd(e.attributes, 200) # 0 THEN r
            ELSE [err |-> r.err, files |-> << e >> \o r.files]))

RECURSIVE AllFilesWalk(_, _, _)
AllFilesWalk(s, cluster, fuel) ==
    IF _cluster_is_end_of_chain(cluster) THEN [err |-> NoErr, files |-> << >>]
    ELSE IF fuel = 0 THEN [err |-> "Hang", files |-> << >>]
    ELSE IF ~CanReadCluster(cluster) THEN [err |-> "ValueError", files |-> << >>]
    ELSE With(AllFilesIn(_readcluster(s, cluster), 1), LAMBDA here :
        IF here.err # NoErr THEN here
        ELSE IF ~FatIndexOk(s, cluster) THEN [err |-> "IndexError", files |-> here.files]
        ELSE With(AllFilesWalk(s, s.fat[cluster], fuel - 1), LAMBDA r :
                [err |-> r.err, files |-> here.files \o r.files]))

_allfilesincluster(s, cluster) ==
    IF cluster = 1 THEN AllFilesIn(ReadRoot(s), 1)
    ELSE AllFilesWalk(s, cluster, Fuel)

\* the entries listfiles yields when it is run to its end
listfiles(s, path, hidden) ==
    With(_resolvedir(s, path, FALSE), LAMBDA d :
    IF d.err # NoErr THEN [err |-> d.err, files |-> << >>]
    ELSE IF d.cluster = None THEN [err |-> "FileNotFoundError", files |-> << >>]
    ELSE With(_allfilesincluster(s, d.cluster), LAMBDA all :
        [err |-> all.err,
         files |-> SelectSeq(all.files,
                       LAMBDA e : BitAnd(e.attributes, 16) = 0
                                  /\ (hidden \/ BitAnd(e.attributes, 2) = 0))]))

\* the entries listdirs yields when it is run to its end
listdirs(s, path, hidden) ==
    With(_resolvedir(s, path, FALSE), LAMBDA d :
    IF d.err # NoErr THEN [err |-> d.err, files |-> << >>]
    ELSE IF d.cluster = None THEN [err |-> "FileNotFoundError", files |-> << >>]
    ELSE With(_allfilesincluster(s, d.cluster), LAMBDA all :
        [err |-> all.err,
         files |-> SelectSeq(all.files,
                       LAMBDA e : BitAnd(e.attributes, 16) # 0
                                  /\ (hidden \/ BitAnd(e.attributes, 2) # 0))]))

\* what stat returns: a directory has neither date nor size
FAT12FileInfo(name, attributes, date, starting_cluster, size) ==
    [name |-> name, attributes |-> attributes, date |-> date,
     starting_cluster |-> starting_cluster, size |-> size]

NoInfo == FAT12FileInfo(<< >>, 0, None, None, None)

stat(s, path) ==
    With(_resolvepath(s, path, FALSE), LAMBDA r :
    IF r.err # NoErr THEN [err |-> r.err, info |-> NoInfo]
    ELSE IF r.cluster = None THEN [err |-> "FileNotFoundError", info |-> NoInfo]
    ELSE With(_parsedirentry(_readdirentry(s, r.ocluster, r.offset)), LAMBDA e :
    IF e.err # NoErr THEN [err |-> e.err, info |-> NoInfo]
    ELSE IF e.exists # "True" THEN [err |-> "TypeError", info |-> NoInfo]
    ELSE With(BitAnd(e.attributes, 16) # 0, LAMBDA is_dir :
        [err |-> NoErr,
         info |-> FAT12FileInfo(e.filename, e.attributes,
                                IF is_dir THEN None ELSE e.modified,
                                e.cluster,
                                IF is_dir THEN None ELSE e.file_size)])))

(***************************************************************************)
(* The state machine: one FAT12 object on its image, a caller issuing      *)
(* public calls one after the other.                                       *)
(***************************************************************************)
VARIABLES
    fs,     \* the object and its image, as above; fs.err is how the last call ended
    last,   \* the last call: its name and arguments
    allok,  \* whether every call so far returned without raising
    calls   \* how many calls the caller has made

vars == << fs, last, allok, calls >>

\* names and paths the caller uses
NameF == << 70 >>
NameG == << 71 >>
NameD == << 68 >>
Root == << EmptyStr, EmptyStr >>
AbsF == << EmptyStr, NameF >>
AbsD == << EmptyStr, NameD >>
AbsDF == << EmptyStr, NameD, NameF >>
NameE == << 69 >>
AbsDE == << EmptyStr, NameD, NameE >>
RelF == << NameF >>
RelG == << NameG >>
RelD == << NameD >>
Up == << DotDotName >>

\* file contents the caller writes: nothing, less than a cluster, one block
\* more than a cluster
Bytes(d, n) == [i \in 1 .. n |-> DataBlock(d)]
Contents == { << >>, Bytes(33, 1), Bytes(65, SlotsPerSector + 1) }

\* the clock readings of the calls
Times == { DateTime(2026, 11, 1, 0, 12, 32) }

TheLabel == << 84, 69, 83, 84 >>

NoPath == << >>

\* folder is the call's second path or name (move's folder, copy's
\* destination, rename's name), flag its boolean (ignore_readonly, chdir),
\* attrib its bit field
Call(op, path, folder, contents, flag) ==
    [op |-> op, path |-> path, folder |-> folder, contents |-> contents,
     flag |-> flag, attrib |-> 0]

Begin(now) == [fs EXCEPT !.err = NoErr, !.now = now]

\* the bookkeeping of a call that has ended in the state fs'
Returned(call) ==
    /\ last' = call
    /\ allok' = (allok /\ fs'.err = NoErr)
    /\ calls' = calls + 1

Init ==
    /\ \E now \in Times : fs = format(BlankImage(now), TheLabel)
    /\ last = Call("format", NoPath, NoPath, << >>, FALSE)
    /\ allok = TRUE
    /\ calls = 0

WriteFile(path, contents, flag) ==
    /\ calls < MaxCalls
    /\ \E now \in Times : fs' = write_file(Begin(now), path, contents, flag)
    /\ Returned(Call("write_file", path, NoPath, contents, flag))

DeleteFile(path, flag) ==
    /\ calls < MaxCalls
    /\ \E now \in Times : fs' = delete_file(Begin(now), path, flag)
    /\ Returned(Call("delete_file", path, NoPath, << >>, flag))

CreateDirectory(path, flag) ==
    /\ calls < MaxCalls
    /\ \E now \in Times : fs' = create_directory(Begin(now), path, flag)
    /\ Returned(Call("create_directory", path, NoPath, << >>, flag))

RemoveDirectory(path) ==
    /\ calls < MaxCalls
    /\ \E now \in Times : fs' = remove_directory(Begin(now), path)
    /\ Returned(Call("remove_directory", path, NoPath, << >>, FALSE))

Move(path, folder) ==
    /\ calls < MaxCalls
    /\ \E now \in Times : fs' = move(Begin(now), path, folder)
    /\ Returned(Call("move", path, folder, << >>, FALSE))

Chdir(path) ==
    /\ calls < MaxCalls
    /\ \E now \in Times : fs' = chdir(Begin(now), path)
    /\ Returned(Call("chdir", path, NoPath, << >>, FALSE))

SetAttributes(path, attrib) ==
    /\ calls < MaxCalls
    /\ \E now \in Times : fs' = set_attributes(Begin(now), path, attrib)
    /\ Returned([Call("set_attributes", path, NoPath, << >>, FALSE) EXCEPT !.attrib = attrib])

Rename(path, name) ==
    /\ calls < MaxCalls
    /\ \E now \in Times : fs' = rename(Begin(now), path, name)
    /\ Returned(Call("rename", path, << name >>, << >>, FALSE))

SetLabel(label) ==
    /\ calls < MaxCalls
    /\ \E now \in Times : fs' = set_label(Begin(now), label)
    /\ Returned(Call("set_label", << label >>, NoPath, << >>, FALSE))

Copy(source, destination) ==
    /\ calls < MaxCalls
    /\ \E now \in Times : fs' = copy(Begin(now), source, destination, FALSE)
    /\ Returned(Call("copy", source, destination, << >>, FALSE))

FilePaths == { AbsF, AbsDF, RelF, RelG }
DirPaths == { AbsD, RelD, AbsDE }
Folders == { Root, AbsD, Up }
\* read-only, hidden, system with the directory bit
Attribs == { 1, 2, 20 }
OtherLabel == << 76 >>

Next ==
    \/ \E p \in FilePaths, b \in Contents : WriteFile(p, b, FALSE)
    \/ WriteFile(RelF, Bytes(33, 1), TRUE)
    \/ \E p \in FilePaths : DeleteFile(p, FALSE)
    \/ DeleteFile(RelF, TRUE)
    \/ \E p \in DirPaths, c \in BOOLEAN : CreateDirectory(p, c)
    \/ \E p \in DirPaths : RemoveDirectory(p)
    \/ \E p \in FilePaths \cup DirPaths, d \in Folders : Move(p, d)
    \/ \E p \in Folders : Chdir(p)
    \/ \E p \in { RelF, RelD }, a \in Attribs : SetAttributes(p, a)
    \/ SetAttributes(Up, 1)
    \/ \E p \in { RelF, RelD } : Rename(p, NameG)
    \/ SetLabel(OtherLabel)
    \/ \E d \in { RelG, AbsD, AbsDF } : Copy(RelF, d)

Spec == Init /\ [][Next]_vars

(***************************************************************************)
(* Formatting, mounting and labelling: the caller starts from a blank      *)
(* image, formats it, opens it again, sets labels and writes a file.       *)
(***************************************************************************)
Eleven == [i \in 1 .. 11 |-> 69]
Twelve == [i \in 1 .. 12 |-> 69]
\* labels of 0, 1, 3 (with a space inside), 4, 11 and 12 characters
Labels == { << >>, OtherLabel, << 65, 32, 66 >>, TheLabel, Eleven, Twelve }

\* format or FAT12(image) has returned an object on this image
HasObject(s) == s.has_ebpb

BlankInit ==
    /\ \E now \in Times : fs = BlankImage(now)
    /\ last = Call("FloppyImage", NoPath, NoPath, << >>, FALSE)
    /\ allok = TRUE
    /\ calls = 0

Format(label) ==
    /\ calls < MaxCalls
    /\ \E now \in Times : fs' = format(Begin(now), label)
    /\ Returned(Call("format", << label >>, NoPath, << >>, FALSE))

Open ==
    /\ calls < MaxCalls
    /\ \E now \in Times : fs' = FAT12(Begin(now))
    /\ Returned(Call("FAT12", NoPath, NoPath, << >>, FALSE))

LabelNext ==
    \/ \E l \in Labels : Format(l)
    \/ Open
    \/ HasObject(fs) /\ \E l \in Labels : SetLabel(l)
    \/ HasObject(fs) /\ WriteFile(RelF, Bytes(33, 1), FALSE)

LabelSpec == BlankInit /\ [][LabelNext]_vars

(***************************************************************************)
(* Writing and copying inside a new directory: the caller creates D and    *)
(* makes it the current directory, writes F and copies it.                 *)
(***************************************************************************)
EnterNewDirectory ==
    /\ calls < MaxCopyCalls
    /\ \E now \in Times : fs' = create_directory(Begin(now), RelD, TRUE)
    /\ Returned(Call("create_directory", RelD, NoPath, << >>, TRUE))

WriteHere(contents) ==
    /\ calls < MaxCopyCalls
    /\ \E now \in Times : fs' = write_file(Begin(now), RelF, contents, FALSE)
    /\ Returned(Call("write_file", RelF, NoPath, contents, FALSE))

CopyHere(destination) ==
    /\ calls < MaxCopyCalls
    /\ \E now \in Times : fs' = copy(Begin(now), RelF, destination, FALSE)
    /\ Returned(Call("copy", RelF, destination, << >>, FALSE))

CopyNext ==
    \/ EnterNewDirectory
    \/ \E b \in Contents : WriteHere(b)
    \/ \E d \in { RelF, RelG } : CopyHere(d)

CopySpec == Init /\ [][CopyNext]_vars

(***************************************************************************)
(* Renaming: the caller writes F, creates D, moves and copies F, and       *)
(* renames entries to names of every shape.                                *)
(***************************************************************************)
LowerG == << 103 >>
\* nine characters before the dot, four after it
LongBase == << 71, 71, 71, 71, 71, 71, 71, 71, 71 >>
LongExt == << 71, Dot, 65, 66, 67, 68 >>
LegalNames == { NameG, LowerG }
LongNames == { LongBase, LongExt }
NewNames == LegalNames \cup LongNames \cup { DotName, DotDotName }

\* the clock readings of the calls of rename, later than the others
LaterTimes == { DateTime(2026, 11, 1, 0, 12, 34) }

RenameLater(path, name) ==
    /\ calls < MaxCalls
    /\ \E now \in LaterTimes : fs' = rename(Begin(now), path, name)
    /\ Returned(Call("rename", path, << name >>, << >>, FALSE))

NameNext ==
    \/ \E p \in { RelF, RelG }, b \in { << >>, Bytes(33, 1) } : WriteFile(p, b, FALSE)
    \/ \E c \in BOOLEAN : CreateDirectory(RelD, c)
    \/ \E p \in { RelF, RelD, Up }, n \in NewNames : RenameLater(p, n)
    \/ Move(RelF, AbsD)
    \/ Copy(RelF, RelG)

NameSpec == Init /\ [][NameNext]_vars

(***************************************************************************)
(* The boot sector: images whose BPB fields take any of a few values, and  *)
(* the reading of the BPB that opens FAT12(image).                         *)
(***************************************************************************)
FsTypeFat == << 70, 65, 84, 32, 32, 32, 32, 32 >>
FsTypeFat12 == << 70, 65, 84, 49, 50, 32, 32, 32 >>
FsTypeFat16 == << 70, 65, 84, 49, 54, 32, 32, 32 >>
FsTypeBlank == << 0, 0, 0, 0, 0, 0, 0, 0 >>

\* the fields of sector 0 that _readbpb tests; signature is the byte at 0x26
BootSectors ==
    [bytes_per_sector : { 512, 1024 },
     sectors_per_cluster : { 1, 2 },
     fat_count : { 0, 1, 2, 3 },
     root_entries : { 224, 232, 16 },
     descriptor : { 240, 249 },
     signature : { 41, 0 },
     fs_type : { FsTypeFat, FsTypeFat12, FsTypeFat16, FsTypeBlank }]

\* the exception _readbpb raises on the boot sector mbr, NoErr when it
\* returns
_readbpb(mbr) ==
    IF mbr.fat_count \notin { 1, 2 } THEN "ValueError"
    ELSE IF \/ mbr.bytes_per_sector # 512
            \/ mbr.sectors_per_cluster # 1
            \/ mbr.descriptor # 240
            \/ mbr.root_entries % 16 # 0
    THEN "NotImplementedError"
    ELSE IF mbr.signature = 41 /\ mbr.fs_type \notin { FsTypeFat, FsTypeFat12 }
    THEN "NotImplementedError"
    ELSE NoErr

BootInit ==
    /\ \E mbr \in BootSectors : fs = [mbr |-> mbr, err |-> NoErr]
    /\ last = Call("FloppyImage", NoPath, NoPath, << >>, FALSE)
    /\ allok = TRUE
    /\ calls = 0

ReadBpb ==
    /\ calls < MaxCalls
    /\ fs' = [fs EXCEPT !.err = _readbpb(fs.mbr)]
    /\ Returned(Call("_readbpb", NoPath, NoPath, << >>, FALSE))

BootNext == ReadBpb

BootSpec == BootInit /\ [][BootNext]_vars

(***************************************************************************)
(* Navigation: the caller creates D and E, changes the directory, and      *)
(* asks about directories by relative paths.                               *)
(***************************************************************************)
RelE == << NameE >>
RelEF == << NameE, NameF >>
Here == << DotName >>

MakeDirectory(path) ==
    /\ calls < MaxNavCalls
    /\ \E now \in Times : fs' = create_directory(Begin(now), path, FALSE)
    /\ Returned(Call("create_directory", path, NoPath, << >>, FALSE))

Navigate(path) ==
    /\ calls < MaxNavCalls
    /\ \E now \in Times : fs' = chdir(Begin(now), path)
    /\ Returned(Call("chdir", path, NoPath, << >>, FALSE))

\* isdir, and listfiles and listdirs run to their end: what they leave of
\* the object is what _resolvedir leaves of it
IsDir(path) ==
    /\ calls < MaxNavCalls
    /\ \E now \in Times :
        fs' = [AfterResolveDir(Begin(now), _resolvedir(Begin(now), path, FALSE))
                    EXCEPT !.err = isdir(Begin(now), path).err]
    /\ Returned(Call("isdir", path, NoPath, << >>, FALSE))

ListFiles(path) ==
    /\ calls < MaxNavCalls
    /\ \E now \in Times :
        fs' = [AfterResolveDir(Begin(now), _resolvedir(Begin(now), path, FALSE))
                    EXCEPT !.err = listfiles(Begin(now), path, FALSE).err]
    /\ Returned(Call("listfiles", path, NoPath, << >>, FALSE))

ListDirs(path) ==
    /\ calls < MaxNavCalls
    /\ \E now \in Times :
        fs' = [AfterResolveDir(Begin(now), _resolvedir(Begin(now), path, FALSE))
                    EXCEPT !.err = listdirs(Begin(now), path, FALSE).err]
    /\ Returned(Call("listdirs", path, NoPath, << >>, FALSE))

NavNext ==
    \/ \E p \in { RelD, RelE } : MakeDirectory(p)
    \/ \E p \in { RelD, RelE, Up, Here, RelEF } : Navigate(p)
    \/ IsDir(RelE)
    \/ ListFiles(RelE)
    \/ ListDirs(RelE)

NavSpec == Init /\ [][NavNext]_vars

(***************************************************************************)
(* Allocation: volumes whose FAT entries from 2 on are free or in use in   *)
(* any pattern, and calls of _alloccluster on them.                        *)
(***************************************************************************)
\* the clusters given as attach_to: none, cluster 0, data clusters, the
\* last entry of the FAT, and a cluster number the FAT has no entry for
AttachTo == { None, 0, 2, 3, FatLen - 1, FatLen }

AllocInit ==
    /\ \E now \in Times, f \in [2 .. (FatLen - 1) -> { 0, EndOfChain }] :
        fs = _writefat([format(BlankImage(now), TheLabel) EXCEPT !.fat =
                [i \in 0 .. (FatLen - 1) |->
                    IF i = 0 THEN FatEntry0 ELSE IF i = 1 THEN EndOfChain ELSE f[i]]])
    /\ last = Call("FAT12", NoPath, NoPath, << >>, FALSE)
    /\ allok = TRUE
    /\ calls = 0

\* last.attrib is attach_to, last.contents holds the cluster returned
AllocCluster(attach_to) ==
    /\ calls < MaxAllocCalls
    /\ \E now \in Times :
        /\ fs' = _alloccluster(Begin(now), attach_to).s
        /\ Returned([Call("_alloccluster", NoPath, NoPath,
                          << _alloccluster(Begin(now), attach_to).val >>, FALSE)
                        EXCEPT !.attrib = attach_to])

AllocNext == \E a \in AttachTo : AllocCluster(a)

AllocSpec == AllocInit /\ [][AllocNext]_vars

(***************************************************************************)
(* A root directory that is full or nearly full: the caller has written    *)
(* empty files until the root has at most two free slots, then writes,     *)
(* creates, copies and deletes.                                            *)
(***************************************************************************)
\* the name of the n-th file written: H + n, names no other call uses
Filler(n) == << << 72 + n >> >>

\* for k in n, n - 1 .. 1: write_file(Filler(k), b'')
RECURSIVE Fill(_, _)
Fill(s, n) ==
    IF n = 0 THEN s
    ELSE LET t == write_file(s, Filler(n), << >>, FALSE)
         IN  IF Failed(t) THEN t ELSE Fill(t, n - 1)

\* how many files are written before the first step: the label has one slot
Fillings == { root_entries - 3, root_entries - 2, root_entries - 1 }

RootInit ==
    /\ \E now \in Times, n \in Fillings :
        fs = Fill(format(BlankImage(now), TheLabel), n)
    /\ last = Call("write_file", Filler(1), NoPath, << >>, FALSE)
    /\ allok = TRUE
    /\ calls = 0

RootNext ==
    \/ \E p \in { RelF, RelG }, b \in { << >>, Bytes(33, 1) } : WriteFile(p, b, FALSE)
    \/ CreateDirectory(RelD, FALSE)
    \/ \E p \in { RelF, Filler(1) } : DeleteFile(p, FALSE)
    \/ \E d \in { RelF, RelG } : Copy(Filler(2), d)

RootSpec == RootInit /\ [][RootNext]_vars

(***************************************************************************)
(* Directory entries by themselves: 32-byte entries as a disk may hold     *)
(* them, parsed and formatted again the way set_attributes and rename      *)
(* rewrite an entry, and entries formatted from the names a caller gives.  *)
(***************************************************************************)
\* 11-byte names: F, F.TXT, FG.T, and names whose first character is 0xE5,
\* stored as 0x05
DiskNames ==
    { LJust(NameF, 11),
      LJust(NameF, 8) \o << 84, 88, 84 >>,
      LJust(<< 70, 71 >>, 8) \o LJust(<< 84 >>, 3),
      LJust(<< 5 >>, 11),
      LJust(<< 5, 65 >>, 8) \o << 84, 88, 84 >> }

EntryTimes == { DateTime(2026, 11, 1, 0, 12, 32), DateTime(1980, 1, 1, 0, 0, 0) }

\* archive, read-only archive, hidden system, directory
EntryAttribs == { 32, 33, 6, 16 }

DiskEntries ==
    { [name |-> n, attr |-> a, rsv |-> 0, mtime |-> _pdt_to_edt(m),
       clus |-> c, size |-> z] :
        n \in DiskNames, a \in EntryAttribs, m \in EntryTimes,
        c \in { 0, 2 }, z \in { 0, 33 } }

\* the names a caller gives as strings: F.TXT, f, and sigma (0xE5) names
GivenNames == { << 70, 46, 84, 88, 84 >>, << 102 >>, << 229 >>, << 229, 65 >> }

EntryInit ==
    /\ \E e \in DiskEntries, now \in Times :
        fs = [entry |-> e, now |-> now, err |-> NoErr]
    /\ last = Call("read_sectors", NoPath, NoPath, << >>, FALSE)
    /\ allok = TRUE
    /\ calls = 0

\* _makedirentry(filename, attributes, modified, cluster, file_size) on the
\* fields _parsedirentry returns for the entry
Rewrite ==
    /\ calls < MaxCalls
    /\ LET e == _parsedirentry(fs.entry)
           made == _makedirentry(e.filename, FALSE, e.attributes, e.modified,
                                 fs.now, e.cluster, e.file_size)
       IN  fs' = [fs EXCEPT !.entry = made.entry,
                            !.err = IF e.err # NoErr THEN e.err ELSE made.err]
    /\ Returned(Call("_parsedirentry", NoPath, NoPath, << >>, FALSE))

\* _makedirentry(name, 0x20, None, 0, 0), as _createfile calls it
MakeEntry(name) ==
    /\ calls < MaxCalls
    /\ LET made == _makedirentry(name, FALSE, 32, NoDate, fs.now, 0, 0)
       IN  fs' = [fs EXCEPT !.entry = made.entry, !.err = made.err]
    /\ Returned(Call("_makedirentry", << name >>, NoPath, << >>, FALSE))

EntryNext ==
    \/ Rewrite
    \/ \E n \in GivenNames : MakeEntry(n)

EntrySpec == EntryInit /\ [][EntryNext]_vars

(***************************************************************************)
(* The FAT codec: images whose first FAT copy holds three bytes of any     *)
(* pattern in one of its triples, read by _readfat and written back by     *)
(* _writefat, and in-memory FATs with an entry changed, written and read.  *)
(***************************************************************************)
\* bytes with every pattern of low and high nibble
ByteSamples == { 0, 15, 165, 240, 255 }

\* 12-bit entries: free, links, end of chain
EntrySamples == { 0, 291, 2748, EndOfChain }

\* the entries changed: a reserved one, data clusters, the last entry
EntryPlaces == { 1, 2, 3, FatLen - 1 }

FatInit ==
    /\ \E now \in Times, k \in 0 .. (FatTriples - 1), b0, b1, b2 \in ByteSamples :
        fs = [format(BlankImage(now), TheLabel) EXCEPT !.dfat =
                [j \in DOMAIN @ |->
                    IF j = 3 * k THEN b0
                    ELSE IF j = 3 * k + 1 THEN b1
                    ELSE IF j = 3 * k + 2 THEN b2
                    ELSE @[j]]]
    /\ last = Call("write_sectors", NoPath, NoPath, << >>, FALSE)
    /\ allok = TRUE
    /\ calls = 0

\* _readfat(), then _writefat() of what was read
ReadWriteFat ==
    /\ calls < MaxFatCalls
    /\ \E now \in Times :
        fs' = With(_readfat(Begin(now)), LAMBDA s1 :
                IF Failed(s1) THEN s1 ELSE _writefat(s1))
    /\ Returned(Call("_readfat", NoPath, NoPath, << >>, FALSE))

\* self._fat[i] = v, then _writefat(), then _readfat(); last.contents is
\* << i >> and last.attrib is v
WriteReadFat(i, v) ==
    /\ calls < MaxFatCalls
    /\ \E now \in Times :
        fs' = With(_writefat([Begin(now) EXCEPT !.fat[i] = v]), LAMBDA s1 :
                IF Failed(s1) THEN s1 ELSE _readfat(s1))
    /\ Returned([Call("_writefat", NoPath, NoPath, << i >>, FALSE) EXCEPT !.attrib = v])

FatNext ==
    \/ ReadWriteFat
    \/ \E i \in EntryPlaces, v \in EntrySamples : WriteReadFat(i, v)

FatSpec == FatInit /\ [][FatNext]_vars

(***************************************************************************)
(* What the properties below read off a state.                             *)
(***************************************************************************)
\* the clusters met following the FAT from c, for as long as they are
\* data clusters the FAT has an entry for
RECURSIVE ChainOf(_, _, _)
ChainOf(fat, c, fuel) ==
    IF fuel = 0 \/ ~_isvalidcluster(c) \/ c \notin DOMAIN fat THEN << >>
    ELSE << c >> \o ChainOf(fat, fat[c], fuel - 1)

Chain(s, c) == ChainOf(s.fat, c, Fuel)

\* the chain from c has exactly n clusters, all data clusters, and its last
\* entry is an end-of-chain value
RECURSIVE WellChain(_, _, _)
WellChain(fat, c, n) ==
    /\ n >= 1
    /\ _isvalidcluster(c)
    /\ c \in DOMAIN fat
    /\ IF n = 1 THEN _cluster_is_end_of_chain(fat[c])
       ELSE WellChain(fat, fat[c], n - 1)

\* the FAT entries of the k-th on-disk copy
DiskFat(s, k) == DecodeFat(DiskFatCopy(s.dfat, k))

FatCopies == 0 .. (fat_count - 1)

\* the parsed entry a path resolves to; exists is "None" when it resolves
\* to nothing
EntryOf(s, path) ==
    LET r == _resolvepath(s, path, FALSE)
    IN  IF r.err # NoErr \/ r.cluster = None
        THEN Parsed("None", << >>, 0, NoDate, 0, 0, r.err)
        ELSE _parsedirentry(_readdirentry(s, r.ocluster, r.offset))

IsRegularFile(e) == e.exists = "True" /\ e.err = NoErr /\ BitAnd(e.attributes, 16) = 0

SeqToSet(seq) == { seq[i] : i \in 1 .. Len(seq) }

\* the names list_files yields for a directory path, hidden ones included
FileNames(s, path) == { e.filename : e \in SeqToSet(listfiles(s, path, TRUE).files) }

\* the names of the live entries of the root directory region
RootNames(s) == { e.filename : e \in SeqToSet(AllFilesIn(ReadRoot(s), 1).files) }

\* the live entries of the directory whose chain starts at cluster, and of
\* the directories below it, down to `depth` levels
RECURSIVE EntriesUnder(_, _, _)
EntriesUnder(s, cluster, depth) ==
    LET here == SeqToSet(_allfilesincluster(s, cluster).files)
        subs == { e \in here : /\ BitAnd(e.attributes, 16) # 0
                               /\ e.filename \notin {DotName, DotDotName}
                               /\ _isvalidcluster(e.cluster)
                               /\ CanReadCluster(e.cluster) }
    IN  IF depth = 0 THEN here
        ELSE here \cup UNION { EntriesUnder(s, e.cluster, depth - 1) : e \in subs }

LiveFiles(s) == { e \in EntriesUnder(s, 1, 2) : BitAnd(e.attributes, 16) = 0 }

C2_Shrinks(pre, call) ==
    LET e == EntryOf(pre, call.path)
    IN  /\ call.op = "write_file"
        /\ IsRegularFile(e)
        /\ e.cluster # 0
        /\ ClustersFor(ByteLen(call.contents)) < Len(Chain(pre, e.cluster))

C2_Truncated(pre, post, call) ==
    LET old == Chain(pre, EntryOf(pre, call.path).cluster)
        new_clusters == ClustersFor(ByteLen(call.contents))
        e == EntryOf(post, call.path)
    IN  /\ IsRegularFile(e)
        /\ Len(Chain(post, e.cluster)) = new_clusters
        /\ new_clusters > 0 => WellChain(post.fat, e.cluster, new_clusters)
        /\ \A k \in (new_clusters + 1) .. Len(old) : post.fat[old[k]] = 0

\* C2: when write_file returns from overwriting a file of old_clusters
\* clusters with contents that need fewer, the entry's chain has exactly
\* new_clusters clusters, ends in an end-of-chain value, and every surplus
\* cluster is free in the FAT.
C2_TruncationFreesSurplus ==
    [][ (C2_Shrinks(fs, last') /\ fs'.err = NoErr) => C2_Truncated(fs, fs', last') ]_vars

(***************************************************************************)
(* C3: size and chain of every file entry.                                 *)
(***************************************************************************)
C3_Consistent(s, e) ==
    /\ (e.cluster = 0) <=> (e.file_size = 0)
    /\ e.file_size # 0 => WellChain(s.fat, e.cluster, ClustersFor(e.file_size))

\* C3: while every call so far has returned without raising, every live
\* file entry has starting cluster 0 exactly when its size is 0, and the
\* chain of a non-empty file has exactly ceil(size / cluster size) data
\* clusters and ends in an end-of-chain value.
C3_SizeClusterConsistent ==
    allok => \A e \in LiveFiles(fs) : C3_Consistent(fs, e)

(***************************************************************************)
(* C4: component-wise resolution.                                          *)
(***************************************************************************)
\* C4: after write_file('/D/F', b) returns with /D a directory and no F in
\* the root before, F is among list_files('/D') and still not in the root;
\* and exists('/D/F') holds only if list_files('/D') has F.
C4_ResolvesInNamedDirectory ==
    [][ (/\ last'.op = "write_file"
         /\ last'.path = AbsDF
         /\ fs'.err = NoErr
         /\ isdir(fs, AbsD).val
         /\ NameF \notin RootNames(fs))
        => (/\ NameF \in FileNames(fs', AbsD)
            /\ NameF \notin RootNames(fs')
            /\ exists(fs', AbsDF).val => NameF \in FileNames(fs', AbsD)) ]_vars

(***************************************************************************)
(* C5: move.                                                               *)
(***************************************************************************)
\* the raw blocks of the directory whose chain starts at cluster
DirBlocks(s, cluster) ==
    IF cluster = 1 THEN SeqToSet(ReadRoot(s))
    ELSE UNION { SeqToSet(_readcluster(s, c)) : c \in SeqToSet(Chain(s, cluster)) }

\* path names an existing item, folder an existing directory, and the
\* folder is not the directory the item's entry was found in
C5_Applies(pre, call) ==
    LET r == _resolvepath(pre, call.path, FALSE)
        d == _resolvedir(pre, call.folder, FALSE)
    IN  /\ call.op = "move"
        /\ r.err = NoErr /\ r.cluster # None
        /\ d.err = NoErr /\ d.cluster # None
        /\ d.cluster # r.cluster
        /\ _parsedirentry(_readdirentry(pre, r.ocluster, r.offset)).err = NoErr

C5_Moved(pre, post, call) ==
    LET r == _resolvepath(pre, call.path, FALSE)
        d == _resolvedir(pre, call.folder, FALSE)
        src == _readdirentry(pre, r.ocluster, r.offset)
        data == SeqToSet(Chain(pre, src.clus))
    IN  /\ post.err = NoErr
        /\ src \in DirBlocks(post, d.cluster)
        /\ _readdirentry(post, r.ocluster, r.offset).name[1] = FreeMark
        /\ \A c \in data : post.fat[c] = pre.fat[c]
        /\ BitAnd(src.attr, 16) = 0 =>
              \A c \in data : _readcluster(post, c) = _readcluster(pre, c)

\* C5: move(path, folder) of an existing item into an existing directory
\* other than the one that holds it returns, leaves in the target directory
\* an entry equal byte for byte to the source entry, marks the source slot
\* deleted, and leaves the item's chain and data as they were.
C5_MoveMovesEntry ==
    [][ C5_Applies(fs, last') => C5_Moved(fs, fs', last') ]_vars

(***************************************************************************)
(* C6: delete_file.                                                        *)
(***************************************************************************)
C6_Applies(pre, call) ==
    LET e == EntryOf(pre, call.path)
    IN  /\ call.op = "delete_file"
        /\ IsRegularFile(e)
        /\ BitAnd(e.attributes, 1) = 0

C6_Deleted(pre, post, call) ==
    LET r == _resolvepath(pre, call.path, FALSE)
        e == EntryOf(pre, call.path)
        old == SeqToSet(Chain(pre, e.cluster))
    IN  /\ post.err = NoErr
        /\ _readdirentry(post, r.ocluster, r.offset).name[1] = FreeMark
        /\ \A c \in old : post.fat[c] = 0
        /\ \A c \in old : \A k \in FatCopies : DiskFat(post, k)[c] = 0
        /\ ~exists(post, call.path).val

\* C6: delete_file(path) of an existing regular file that is not read-only,
\* in the root or in a subdirectory, returns; the entry's first byte is then
\* 0xE5, every cluster of the former chain is 0 in the in-memory FAT and in
\* every on-disk copy, and exists(path) is false.
C6_DeleteFreesAndUnlinks ==
    [][ C6_Applies(fs, last') => C6_Deleted(fs, fs', last') ]_vars

(***************************************************************************)
(* C7: remove_directory.                                                   *)
(***************************************************************************)
\* path resolves to a directory entry other than '.' and '..'
C7_Applies(pre, call) ==
    LET e == EntryOf(pre, call.path)
    IN  /\ call.op = "remove_directory"
        /\ e.exists = "True" /\ e.err = NoErr
        /\ BitAnd(e.attributes, 16) # 0
        /\ e.filename \notin {DotName, DotDotName}
        /\ _allfilesincluster(pre, e.cluster).err = NoErr

C7_Empty(pre, call) ==
    \A x \in SeqToSet(_allfilesincluster(pre, EntryOf(pre, call.path).cluster).files) :
        x.filename \in {DotName, DotDotName}

C7_Removed(pre, post, call) ==
    LET r == _resolvepath(pre, call.path, FALSE)
        e == EntryOf(pre, call.path)
    IN  IF C7_Empty(pre, call)
        THEN /\ post.err = NoErr
             /\ \A c \in SeqToSet(Chain(pre, e.cluster)) : post.fat[c] = 0
             /\ _readdirentry(post, r.ocluster, r.offset).name[1] = FreeMark
             /\ pre.dircluster = e.cluster => post.dircluster = 1
        ELSE /\ post.err = "NotEmpty"
             /\ post.fat = pre.fat
             /\ post.sec = pre.sec

\* C7: remove_directory(path) of a directory with no entries but '.' and
\* '..' returns, with the chain freed, the parent-side entry deleted and a
\* cwd that was the directory reset to the root; of a directory that holds
\* an entry it raises NotEmpty and changes neither the directories nor the
\* FAT.
C7_RemoveDirectory ==
    [][ C7_Applies(fs, last') => C7_Removed(fs, fs', last') ]_vars

(***************************************************************************)
(* C8: create_directory.                                                   *)
(***************************************************************************)
C8_Created(post, call) ==
    LET d == _resolvedir(post, call.path, TRUE)
        c == d.cluster
        parent == IF d.parents = << >> THEN 1 ELSE d.parents[Len(d.parents)]
        f == _resolvefile(post, basename(call.path), parent)
        pe == _parsedirentry(_readdirentry(post, f.cluster, f.offset))
        dot == _parsedirentry(_readcluster(post, c)[1])
        dotdot == _parsedirentry(_readcluster(post, c)[2])
    IN  /\ d.err = NoErr /\ c # None /\ c # 1
        /\ f.err = NoErr /\ f.cluster # None
        /\ pe.attributes = 16
        /\ pe.cluster = c
        /\ _isvalidcluster(c)
        /\ c \in DOMAIN post.fat
        /\ _cluster_is_end_of_chain(post.fat[c])
        /\ dot.exists = "True" /\ dot.filename = DotName
        /\ dot.attributes = 16 /\ dot.cluster = 0
        /\ dotdot.exists = "True" /\ dotdot.filename = DotDotName
        /\ dotdot.attributes = 16 /\ dotdot.cluster = 0
        /\ isdir(post, call.path).val

\* C8: when create_directory(p) returns for an absolute path p that named
\* nothing before and whose parent is the root or an existing directory,
\* p's parent directory holds an entry for it with
\* attribute 0x10 and a data cluster c whose FAT entry is end-of-chain,
\* slots 0 and 1 of c are '.' and '..' with attribute 0x10 and cluster 0,
\* and isdir(p) is true.
C8_CreateDirectory ==
    [][ (/\ last'.op = "create_directory"
         /\ last'.path \in {AbsD, AbsDE}
         /\ fs'.err = NoErr
         /\ ~exists(fs, last'.path).val
         /\ ~isdir(fs, last'.path).val
         /\ last'.path = AbsDE => isdir(fs, AbsD).val)
        => C8_Created(fs', last') ]_vars

(***************************************************************************)
(* C9: the on-disk FAT copies.                                             *)
(***************************************************************************)
\* C9: after every call, returned or raised, all fat_count on-disk copies
\* of the FAT are byte for byte the same.
C9_FatCopiesEqual ==
    \A j, k \in FatCopies : DiskFatCopy(fs.dfat, j) = DiskFatCopy(fs.dfat, k)

\* a call that raised after changing the in-memory FAT, on an image whose
\* FAT copies already hold a chain
C9_Witness ==
    /\ fs.err # NoErr
    /\ fs.fat # DiskFat(fs, 0)
    /\ \E c \in 2 .. (FatLen - 1) : DiskFat(fs, fat_count - 1)[c] # 0

(***************************************************************************)
(* C10: the reserved FAT entries.                                          *)
(***************************************************************************)
\* C10: in every state, also after a call that failed part-way, entry 0 of
\* the in-memory FAT and of every on-disk copy is 0xFF0 and entry 1 is
\* 0xFFF.
C10_ReservedEntries ==
    /\ fs.fat[0] = FatEntry0
    /\ fs.fat[1] = EndOfChain
    /\ \A k \in FatCopies : DiskFat(fs, k)[0] = FatEntry0 /\ DiskFat(fs, k)[1] = EndOfChain

\* a write_file whose truncation loop freed clusters in the in-memory FAT
\* and then raised, so that the on-disk copies still hold the chain
C10_Witness ==
    /\ last.op = "write_file"
    /\ fs.err = "IndexError"
    /\ \E c \in 2 .. (FatLen - 1) : fs.fat[c] = 0 /\ DiskFat(fs, 0)[c] # 0
    /\ fs.fat[0] = FatEntry0
    /\ fs.fat[1] = EndOfChain

(***************************************************************************)
(* C11: set_attributes.                                                    *)
(***************************************************************************)
\* the call names an entry that exists and is not a dot entry
C11_Applies(pre, call) ==
    /\ call.op = "set_attributes"
    /\ stat(pre, call.path).err = NoErr
    /\ stat(pre, call.path).info.name \notin {DotName, DotDotName}

\* the call names '.' or '..' from inside a subdirectory
C11_DotEntry(pre, call) ==
    /\ call.op = "set_attributes"
    /\ pre.dircluster # 1
    /\ call.path \in { << DotName >>, << DotDotName >> }
    /\ stat(pre, call.path).err = NoErr

C11_Set(pre, post, call) ==
    LET old == stat(pre, call.path).info
        new == stat(post, call.path)
    IN  /\ post.err = NoErr
        /\ new.err = NoErr
        /\ new.info.attributes
               = BitOr(BitAnd(old.attributes, 216), BitAnd(call.attrib, 39))
        /\ BitAnd(new.info.attributes, 16 + 8 + 64 + 128)
               = BitAnd(old.attributes, 16 + 8 + 64 + 128)
        /\ new.info.name = old.name
        /\ new.info.date = old.date
        /\ new.info.starting_cluster = old.starting_cluster
        /\ new.info.size = old.size
        /\ EntryOf(post, call.path).modified = EntryOf(pre, call.path).modified
        /\ EntryOf(post, call.path).file_size = EntryOf(pre, call.path).file_size

C11_Refused(pre, post) ==
    /\ post.err # NoErr
    /\ post.sec = pre.sec
    /\ post.dfat = pre.dfat
    /\ post.fat = pre.fat

\* C11: set_attributes(p, x) on an existing entry that is not a dot entry
\* returns, and afterwards stat(p).attributes is (old & 0xD8) | (x & 0x27):
\* the directory bit and bits 0x08, 0x40, 0x80 are the old ones, and the
\* name, modification time, starting cluster and size are unchanged; on '.'
\* or '..' of a subdirectory the call raises and changes nothing.
C11_SetAttributes ==
    [][ /\ C11_Applies(fs, last') => C11_Set(fs, fs', last')
        /\ C11_DotEntry(fs, last') => C11_Refused(fs, fs') ]_vars

\* set_attributes(F, 0x14) has returned on a file that holds data: the
\* system bit is set, the archive bit is cleared, the directory bit stays
\* clear
C11_Witness ==
    /\ last.op = "set_attributes"
    /\ last.attrib = 20
    /\ fs.err = NoErr
    /\ stat(fs, last.path).err = NoErr
    /\ stat(fs, last.path).info.attributes = 4
    /\ stat(fs, last.path).info.size > 0

(***************************************************************************)
(* C12: format, then a fresh open.                                         *)
(***************************************************************************)
\* the state is the one a format of the blank image returned
C12_Formatted(s, call, n) ==
    /\ call.op = "format"
    /\ n = 1
    /\ s.err = NoErr

C12_Mounted(post, label) ==
    /\ post.err = NoErr
    /\ listfiles(post, Root, TRUE) = [err |-> NoErr, files |-> << >>]
    /\ post.label_set
    /\ post.label = label

\* C12: for every label L of at most 11 characters, when format(blank, L)
\* has returned and the image is opened afresh, the open returns, list_files
\* of '/' yields nothing, and the new object has a `label` attribute, which
\* equals L.
C12_FormatThenOpen ==
    [][ (/\ C12_Formatted(fs, last, calls)
         /\ Len(last.path[1]) <= 11
         /\ last'.op = "FAT12")
        => C12_Mounted(fs', last.path[1]) ]_vars

(***************************************************************************)
(* C13: absolute paths.                                                    *)
(***************************************************************************)
\* the names of the files, resp. subdirectories, among the live entries of
\* the root directory region
RootFiles(s) ==
    { e.filename : e \in { x \in SeqToSet(AllFilesIn(ReadRoot(s), 1).files) :
                              BitAnd(x.attributes, 16) = 0 } }

RootDirs(s) ==
    { e.filename : e \in { x \in SeqToSet(AllFilesIn(ReadRoot(s), 1).files) :
                              BitAnd(x.attributes, 16) # 0 } }

\* C13: a path that begins with '/' is resolved from the root whatever the
\* current directory is: chdir('/') returns with the root as the current
\* directory, and after every call list_files('/') yields the files of the
\* root and '/D' names a directory exactly when the root has a
\* subdirectory D.
C13_AbsoluteFromRoot ==
    [][ /\ (last'.op = "chdir" /\ last'.path = Root)
            => (fs'.err = NoErr /\ fs'.dircluster = 1 /\ fs'.dirparents = << >>)
        /\ allok' => /\ listfiles(fs', Root, TRUE).err = NoErr
                     /\ FileNames(fs', Root) = RootFiles(fs')
                     /\ isdir(fs', AbsD).val <=> NameD \in RootDirs(fs') ]_vars

(***************************************************************************)
(* C14: getdir.                                                            *)
(***************************************************************************)
\* C14: getdir returns '/' whenever the current directory is the root, and
\* when chdir('/D') has returned with /D an existing directory, getdir
\* returns '/D' instead of raising.
C14_Getdir ==
    [][ /\ fs'.dircluster = 1 => getdir(fs') = [err |-> NoErr, path |-> Root]
        /\ (/\ last'.op = "chdir"
            /\ last'.path = AbsD
            /\ fs'.err = NoErr
            /\ NameD \in RootDirs(fs))
           => getdir(fs') = [err |-> NoErr, path |-> AbsD] ]_vars

(***************************************************************************)
(* C15: list_files and list_dirs.                                          *)
(***************************************************************************)
\* the entries of the current directory that a listing may show: those in
\* use, up to the end-of-directory mark, with none of the bits 0xC8
Listable(s) ==
    { e \in SeqToSet(_allfilesincluster(s, s.dircluster).files) :
        BitAnd(e.attributes, 200) = 0 }

NamesOf(listing) == { e.filename : e \in SeqToSet(listing.files) }

\* C15: after every sequence of calls that all returned, for the current
\* directory: list_files with hidden false yields exactly the files without
\* bit 0x02 and list_dirs with hidden false exactly the subdirectories
\* without bit 0x02; with hidden true they yield all files, resp. all
\* subdirectories; no entry with a bit of 0xC8 is yielded.
C15_Listings ==
    allok =>
        /\ NamesOf(listfiles(fs, EmptyPath, FALSE))
             = { e.filename : e \in { x \in Listable(fs) :
                    BitAnd(x.attributes, 16) = 0 /\ BitAnd(x.attributes, 2) = 0 } }
        /\ NamesOf(listfiles(fs, EmptyPath, TRUE))
             = { e.filename : e \in { x \in Listable(fs) : BitAnd(x.attributes, 16) = 0 } }
        /\ NamesOf(listdirs(fs, EmptyPath, FALSE))
             = { e.filename : e \in { x \in Listable(fs) :
                    BitAnd(x.attributes, 16) # 0 /\ BitAnd(x.attributes, 2) = 0 } }
        /\ NamesOf(listdirs(fs, EmptyPath, TRUE))
             = { e.filename : e \in { x \in Listable(fs) : BitAnd(x.attributes, 16) # 0 } }
        /\ \A h \in BOOLEAN :
             \A e \in SeqToSet(listfiles(fs, EmptyPath, h).files)
                        \cup SeqToSet(listdirs(fs, EmptyPath, h).files) :
                BitAnd(e.attributes, 200) = 0

(***************************************************************************)
(* C16: copy.                                                              *)
(***************************************************************************)
\* the source is an existing file and the destination does not exist
C16_Applies(pre, call) ==
    /\ call.op = "copy"
    /\ IsRegularFile(EntryOf(pre, call.path))
    /\ ~exists(pre, call.folder).val

C16_Copied(pre, post, call) ==
    LET src == EntryOf(pre, call.path)
        dst == EntryOf(post, call.folder)
    IN  /\ read_file(pre, call.path).err = NoErr
        /\ read_file(post, call.folder) = read_file(pre, call.path)
        /\ read_file(post, call.path) = read_file(pre, call.path)
        /\ EntryOf(post, call.path) = src
        /\ Chain(post, src.cluster) = Chain(pre, src.cluster)
        /\ IsRegularFile(dst)
        /\ SeqToSet(Chain(post, dst.cluster)) \cap SeqToSet(Chain(post, src.cluster)) = {}

\* C16: when copy(src, dst) returns, with src an existing file and dst not
\* existing before, read_file(dst) gives what read_file(src) gave, the entry,
\* the chain and the contents of src are as before, and the chain of dst has
\* no cluster in common with that of src; copy(src, src) raises.
C16_Copy ==
    [][ /\ (C16_Applies(fs, last') /\ fs'.err = NoErr) => C16_Copied(fs, fs', last')
        /\ (last'.op = "copy" /\ last'.folder = last'.path) => fs'.err # NoErr ]_vars

(***************************************************************************)
(* C17: the attributes of a copy.                                          *)
(***************************************************************************)
\* C17: when copy(src, dst) returns, with src an existing file and dst not
\* existing before, the attributes of dst are those of src with bit 0x20
\* set and bit 0x04 cleared, whatever the attributes of src are.
C17_CopyAttributes ==
    [][ (C16_Applies(fs, last') /\ fs'.err = NoErr)
        => EntryOf(fs', last'.folder).attributes
             = BitAnd(BitOr(EntryOf(fs, last'.path).attributes, 32), 255 - 4) ]_vars

(***************************************************************************)
(* C18: set_label.                                                         *)
(***************************************************************************)
\* the name bytes of the first entry of the root region that has bit 0x08,
\* the empty sequence when there is none
RootLabel(s) ==
    IF LabelSlot(ReadRoot(s)) = 0 THEN << >>
    ELSE ReadRoot(s)[LabelSlot(ReadRoot(s))].name

C18_Labelled(post, label) ==
    /\ post.err = NoErr
    /\ RootLabel(post) = LJust(label, 11)
    /\ post.bpb_label = LJust(label, 11)
    /\ FAT12(post).err = NoErr
    /\ FAT12(post).label_ = label

C18_Refused(pre, post) ==
    /\ post.err # NoErr
    /\ RootLabel(post) = RootLabel(pre)
    /\ post.bpb_label = pre.bpb_label

C19_Applies(pre, call) ==
    /\ call.op \in { "write_file", "delete_file" }
    /\ IsRegularFile(EntryOf(pre, call.path))
    /\ BitAnd(EntryOf(pre, call.path).attributes, 1) = 1

\* refused, with the directory entries and data clusters, the in-memory FAT
\* and the FAT copies on the image all as before
C19_Refused(pre, post) ==
    /\ post.err = "ValueError"
    /\ post.sec = pre.sec
    /\ post.fat = pre.fat
    /\ post.dfat = pre.dfat

\* the call went through as on a file that is not read-only
C19_Proceeded(pre, post, call) ==
    /\ post.err = NoErr
    /\ call.op = "write_file"
        => read_file(post, call.path) = [err |-> NoErr, data |-> call.contents]
    /\ call.op = "delete_file"
        => (/\ ~exists(post, call.path).val
            /\ \A c \in SeqToSet(Chain(pre, EntryOf(pre, call.path).cluster)) :
                  post.fat[c] = 0 /\ DiskFat(post, 0)[c] = 0)

\* C19: write_file and delete_file on a read-only file raise when
\* ignore_readonly is false, and leave the entry, the data clusters, the
\* in-memory FAT and the on-disk FAT as they were; with ignore_readonly true
\* they go through: in the root directory, after calls that all returned,
\* the file then holds the new contents, resp. is gone with its chain freed.
C19_ReadOnly ==
    [][ /\ (C19_Applies(fs, last') /\ ~last'.flag) => C19_Refused(fs, fs')
        /\ (C19_Applies(fs, last') /\ last'.flag /\ fs.dircluster = 1 /\ allok)
            => C19_Proceeded(fs, fs', last') ]_vars

\* a write_file without ignore_readonly has been refused on a read-only
\* file that holds data
C19_Witness ==
    /\ last.op = "write_file"
    /\ ~last.flag
    /\ fs.err = "ValueError"
    /\ BitAnd(EntryOf(fs, last.path).attributes, 1) = 1
    /\ IsRegularFile(EntryOf(fs, last.path))
    /\ Len(Chain(fs, EntryOf(fs, last.path).cluster)) >= 1

(***************************************************************************)
(* C20: create_directory under a missing parent.                           *)
(***************************************************************************)
\* the directory entries named name that post has and pre had not
C20_NewDirs(pre, post, name) ==
    { e \in EntriesUnder(post, 1, 2) :
        BitAnd(e.attributes, 16) # 0 /\ e.filename = name }
    \ EntriesUnder(pre, 1, 2)

\* C20: create_directory('/D/E') with no directory D raises
\* FileNotFoundError; and whenever create_directory returns normally there
\* is a new directory entry with the last component of the path as its name.
C20_MissingParent ==
    [][ last'.op = "create_directory"
        => /\ (last'.path = AbsDE /\ ~isdir(fs, AbsD).val)
                => fs'.err = "FileNotFoundError"
           /\ fs'.err = NoErr
                => C20_NewDirs(fs, fs', basename(last'.path)) # {} ]_vars

(***************************************************************************)
(* C21: rename.                                                            *)
(***************************************************************************)
\* the 11 name bytes of a name with a base and an optional extension
EightThree(name) ==
    LET up == Upper(name)
        d == LastDot(up)
    IN  IF d = 0 THEN LJust(up, 8) \o << Space, Space, Space >>
        ELSE LJust(SubSeq(up, 1, d - 1), 8) \o LJust(SubSeq(up, d + 1, Len(up)), 3)

\* the positions of the image whose 32 bytes differ between two states
ChangedSlots(pre, post) ==
    { p \in SectorDomain \X (1 .. SlotsPerSector) :
        post.sec[p[1]][p[2]] # pre.sec[p[1]][p[2]] }

\* the call names an entry that exists and is not a dot entry
C21_Applies(pre, call) ==
    /\ call.op = "rename"
    /\ EntryOf(pre, call.path).exists = "True"
    /\ EntryOf(pre, call.path).filename \notin {DotName, DotDotName}

\* the call names '.' or '..' from inside a subdirectory
C21_DotEntry(pre, call) ==
    /\ call.op = "rename"
    /\ pre.dircluster # 1
    /\ call.path \in { << DotName >>, << DotDotName >> }
    /\ EntryOf(pre, call.path).exists = "True"

C21_Renamed(pre, post, call) ==
    LET r == _resolvepath(pre, call.path, FALSE)
        old == _readdirentry(pre, r.ocluster, r.offset)
        new == _readdirentry(post, r.ocluster, r.offset)
        again == _resolvepath(post, call.path, FALSE)
    IN  /\ post.err = NoErr
        /\ new = [old EXCEPT !.name = EightThree(call.folder[1])]
        /\ Cardinality(ChangedSlots(pre, post)) <= 1
        /\ post.fat = pre.fat
        /\ post.dfat = pre.dfat
        /\ post.dircluster = pre.dircluster
        /\ EntryOf(post, call.folder).exists = "True"
        /\ Upper(call.folder[1]) # Upper(call.path[1])
            => \/ again.cluster = None
               \/ << again.ocluster, again.offset >> # << r.ocluster, r.offset >>

C21_Refused(pre, post) ==
    /\ post.err = "ValueError"
    /\ post.sec = pre.sec
    /\ post.dfat = pre.dfat
    /\ post.fat = pre.fat

DotOnDisk == LJust(DotName, 11)
DotDotOnDisk == LJust(DotDotName, 11)

\* the starting clusters of the live directory entries among the blocks
DirStarts(blocks) ==
    { blocks[i].clus : i \in { j \in 1 .. Len(blocks) :
        /\ blocks[j].name[1] \notin { 0, FreeMark }
        /\ BitAnd(blocks[j].attr, 16) # 0
        /\ blocks[j].name \notin { DotOnDisk, DotDotOnDisk }
        /\ _isvalidcluster(blocks[j].clus) } }

\* the first clusters of the subdirectories reachable from the root
RECURSIVE DirClosure(_, _, _)
DirClosure(s, found, fuel) ==
    LET more == UNION { UNION { DirStarts(_readcluster(s, Chain(s, d)[k])) :
                                    k \in 1 .. Len(Chain(s, d)) } : d \in found }
    IN  IF fuel = 0 \/ more \subseteq found THEN found
        ELSE DirClosure(s, found \cup more, fuel - 1)

SubdirStarts(s) == DirClosure(s, DirStarts(ReadRoot(s)), Fuel)

\* C22: whatever public operations have been called (write, create, rename
\* to any name, '.' and '..' included, move, copy), no entry of the root
\* has the on-disk name '.' or '..', and in a subdirectory only slots 0
\* and 1 of its first cluster have.
C22_DotNames ==
    /\ \A i \in 1 .. root_entries :
            ReadRoot(fs)[i].name \notin { DotOnDisk, DotDotOnDisk }
    /\ \A d \in SubdirStarts(fs) :
        \A k \in 1 .. Len(Chain(fs, d)) : \A j \in 1 .. SlotsPerSector :
            _readcluster(fs, Chain(fs, d)[k])[j].name \in { DotOnDisk, DotDotOnDisk }
                => k = 1 /\ j \in { 1, 2 }

(***************************************************************************)
(* C23: the FAT on disk after a call that returned.                        *)
(***************************************************************************)
\* C23: when every call so far has returned and a call that changes the
\* volume returns, the first FAT copy on disk decodes to the FAT in memory,
\* and a fresh mount of the image reads that same FAT.
C23_Committed ==
    [][ allok /\ fs'.err = NoErr /\ last'.op # "chdir"
            => /\ DiskFat(fs', 0) = fs'.fat
               /\ FAT12(fs').fat = fs'.fat ]_vars

(***************************************************************************)
(* C24: format of an image that may already hold a volume.                 *)
(***************************************************************************)
\* the FAT of an empty volume
EmptyFat == [i \in 0 .. (FatLen - 1) |->
                IF i = 0 THEN FatEntry0 ELSE IF i = 1 THEN EndOfChain ELSE 0]

\* str without the NUL bytes and spaces at its end
RECURSIVE Unpadded(_)
Unpadded(str) ==
    IF str # << >> /\ str[Len(str)] \in { 0, Space }
    THEN Unpadded(SubSeq(str, 1, Len(str) - 1))
    ELSE str

C24_Fresh(post, label) ==
    /\ post.err = NoErr
    /\ \A k \in FatCopies : DiskFat(post, k) = EmptyFat
    /\ listfiles(post, Root, TRUE) = [err |-> NoErr, files |-> << >>]
    /\ RootFiles(post) = {}
    /\ RootDirs(post) = {}
    /\ Unpadded(RootLabel(post)) = label
    /\ post.bpb_label = LJust(label, 11)

\* C24: after format(image, L) with at most 11 characters, whether the
\* image was blank or already held a volume with files and a label, both
\* FAT copies hold 0xFF0, 0xFFF and zeros, the root lists no file and no
\* directory, and the label of the volume is L.
C24_Format ==
    [][ (last'.op = "format" /\ Len(last'.path[1]) <= 11)
        => C24_Fresh(fs', last'.path[1]) ]_vars

(***************************************************************************)
(* C25: create_directory with chdir, then chdir('..').                     *)
(***************************************************************************)
\* the directories that hold a live entry of the directory starting at c
Containers(s, c) ==
    { d \in { 1 } \cup SubdirStarts(s) :
        \E b \in DirBlocks(s, d) :
            /\ b.name[1] \notin { 0, FreeMark }
            /\ b.name \notin { DotOnDisk, DotDotOnDisk }
            /\ BitAnd(b.attr, 16) # 0
            /\ b.clus = c }

\* C25: when create_directory(path, chdir=True) has returned and has made
\* a directory, that directory is the current directory, and a chdir('..')
\* that follows returns with the directory that contains it as the
\* current directory.
C25_CreateAndEnter ==
    [][ /\ (/\ last'.op = "create_directory" /\ last'.flag
             /\ allok /\ fs'.err = NoErr
             /\ SubdirStarts(fs') # SubdirStarts(fs))
            => fs'.dircluster \in SubdirStarts(fs') \ SubdirStarts(fs)
        /\ (/\ last.op = "create_directory" /\ last.flag
             /\ allok /\ fs.dircluster # 1
             /\ last'.op = "chdir" /\ last'.path = Up)
            => /\ fs'.err = NoErr
               /\ Containers(fs, fs.dircluster) = { fs'.dircluster } ]_vars

(***************************************************************************)
(* C26: the errors of _readbpb.                                            *)
(***************************************************************************)
\* the exceptions the code raises for the two kinds of error: the one of
\* the geometry test and the one of the FAT count test
UnsupportedGeometry == "NotImplementedError"
InvalidBpb == "ValueError"

BadGeometry(mbr) ==
    \/ mbr.bytes_per_sector # 512
    \/ mbr.sectors_per_cluster # 1
    \/ mbr.descriptor # 240
    \/ mbr.root_entries % 16 # 0

BadFsType(mbr) ==
    mbr.signature = 41 /\ mbr.fs_type \notin { FsTypeFat, FsTypeFat12 }

\* C26: reading the BPB fails with UnsupportedGeometry when the sector
\* size is not 512, the cluster size not 1, the media descriptor not 0xF0
\* or the root entries no multiple of 16; it fails with the other kind,
\* InvalidBpb, when the FAT count is neither 1 nor 2 or an EBPB is present
\* whose fs_type is neither 'FAT     ' nor 'FAT12   '; otherwise it returns.
C26_ReadBpb ==
    [][ last'.op = "_readbpb" =>
        LET mbr == fs.mbr
        IN  /\ UnsupportedGeometry # InvalidBpb
            /\ mbr.fat_count \notin { 1, 2 } => fs'.err = InvalidBpb
            /\ (mbr.fat_count \in { 1, 2 } /\ BadGeometry(mbr))
                    => fs'.err = UnsupportedGeometry
            /\ (mbr.fat_count \in { 1, 2 } /\ ~BadGeometry(mbr) /\ BadFsType(mbr))
                    => fs'.err = InvalidBpb
            /\ (mbr.fat_count \in { 1, 2 } /\ ~BadGeometry(mbr) /\ ~BadFsType(mbr))
                    => fs'.err = NoErr ]_vars

(***************************************************************************)
(* C27: queries and failed navigation.                                     *)
(***************************************************************************)
\* the call is a query by a relative path, or a chdir that did not find
\* its directory
C27_ReadOnly(call, post) ==
    \/ call.op \in { "listfiles", "listdirs", "isdir" }
    \/ call.op = "chdir" /\ post.err = "FileNotFoundError"

\* C27: listfiles, listdirs and isdir on a relative path, and a chdir that
\* raises FileNotFoundError, leave the current directory's cluster and its
\* chain of parents as they were, and a chdir('..') that follows one of
\* them from inside a subdirectory returns with the directory that
\* contains it as the current directory.
C27_Queries ==
    [][ /\ C27_ReadOnly(last', fs')
            => /\ fs'.dircluster = fs.dircluster
               /\ fs'.dirparents = fs.dirparents
        /\ (/\ C27_ReadOnly(last, fs) /\ fs.dircluster # 1
             /\ last'.op = "chdir" /\ last'.path = Up)
            => /\ fs'.err = NoErr
               /\ Containers(fs, fs.dircluster) = { fs'.dircluster } ]_vars

(***************************************************************************)
(* C28: a new directory on a cluster that was used before.                 *)
(***************************************************************************)
\* the directory that starts at cluster c holds '.' and '..' and then the
\* end-of-directory mark, and its listing has no other entry
C28_Empty(s, c) ==
    /\ _readcluster(s, c)[1].name = DotOnDisk
    /\ _readcluster(s, c)[2].name = DotDotOnDisk
    /\ _readcluster(s, c)[3].name[1] = 0
    /\ _allfilesincluster(s, c).err = NoErr
    /\ \A e \in SeqToSet(_allfilesincluster(s, c).files) :
            e.filename \in { DotName, DotDotName }

\* C28: when create_directory has returned and has made a directory, the
\* directory is empty whatever its cluster held before: slot 2 of the
\* cluster is the 0x00 mark, and listing it yields nothing but '.' and '..'.
C28_NewDirectoryEmpty ==
    [][ (/\ last'.op = "create_directory"
         /\ allok /\ fs'.err = NoErr)
        => \A c \in SubdirStarts(fs') \ SubdirStarts(fs) : C28_Empty(fs', c) ]_vars

(***************************************************************************)
(* C29: every allocated cluster has one owner.                             *)
(***************************************************************************)
\* the slots of the root (cluster 1) and of every subdirectory's chain
DirSlots(s) ==
    ({ 1 } \X (1 .. root_entries))
    \cup ((UNION { SeqToSet(Chain(s, d)) : d \in SubdirStarts(s) })
            \X (1 .. SlotsPerSector))

BlockAt(s, p) ==
    IF p[1] = 1 THEN ReadRoot(s)[p[2]] ELSE _readcluster(s, p[1])[p[2]]

\* the slots that hold a live file or directory entry with a chain
LiveSlots(s) ==
    { p \in DirSlots(s) :
        /\ BlockAt(s, p).name[1] \notin { 0, FreeMark }
        /\ BlockAt(s, p).name \notin { DotOnDisk, DotDotOnDisk }
        /\ BitAnd(BlockAt(s, p).attr, 8) = 0
        /\ BlockAt(s, p).clus # 0 }

Owners(s, i) ==
    { p \in LiveSlots(s) : i \in SeqToSet(Chain(s, BlockAt(s, p).clus)) }

\* C29: when every call since the format has returned, every FAT entry
\* from index 2 on that is not 0 lies on the chain of exactly one live file
\* or directory entry, and no cluster on such a chain has the FAT value 0.
C29_OneOwner ==
    allok =>
        /\ \A i \in 2 .. (FatLen - 1) :
                fs.fat[i] # 0 => Cardinality(Owners(fs, i)) = 1
        /\ \A p \in LiveSlots(fs) :
                \A c \in SeqToSet(Chain(fs, BlockAt(fs, p).clus)) : fs.fat[c] # 0

(***************************************************************************)
(* C30: the clusters _alloccluster returns.                                *)
(***************************************************************************)
\* the cluster's sector lies inside the image
InVolume(cluster) ==
    /\ _isvalidcluster(cluster)
    /\ CanReadCluster(cluster)
    /\ CanWriteCluster(cluster)

\* every cluster of the volume is in use
VolumeFull(s) ==
    \A c \in 2 .. (FatLen - 1) : InVolume(c) => s.fat[c] # 0

\* C30: in every state the volume gets into, a call of _alloccluster
\* returns only a cluster whose sector lies inside the volume, and when
\* every such cluster is in use it raises IOError and leaves the FAT as it
\* was, although the FAT has entries with value 0 beyond the last cluster.
C30_AllocInVolume ==
    LET pre == [fs EXCEPT !.err = NoErr]
        r == _alloccluster(pre, None)
    IN  /\ r.val # None => InVolume(r.val)
        /\ VolumeFull(pre)
            => /\ r.s.err = "IOError"
               /\ r.s.fat = pre.fat

(***************************************************************************)
(* C31: set_label and the other entries of the root.                       *)
(***************************************************************************)
\* the blocks of the root that are live file or subdirectory entries
RootItems(s) ==
    { b \in SeqToSet(ReadRoot(s)) :
        /\ b.name[1] \notin { 0, FreeMark }
        /\ BitAnd(b.attr, 8) = 0 }

\* C31: set_label changes only the label: every file and subdirectory
\* entry the root held before the call is in the root with the same 32
\* bytes after it, also when slot 0 of the root is not a label entry.
C31_SetLabelKeepsEntries ==
    [][ (last'.op = "set_label" /\ HasObject(fs))
        => RootItems(fs) \subseteq RootItems(fs') ]_vars

(***************************************************************************)
(* C32: one entry per name.                                                *)
(***************************************************************************)
\* the slots of the directory that starts at cluster d (1 is the root)
SlotsOfDir(s, d) ==
    IF d = 1 THEN { 1 } \X (1 .. root_entries)
    ELSE SeqToSet(Chain(s, d)) \X (1 .. SlotsPerSector)

\* the slots of that directory that hold a live file or directory entry
NamedSlots(s, d) ==
    { p \in SlotsOfDir(s, d) :
        /\ BlockAt(s, p).name[1] \notin { 0, FreeMark }
        /\ BitAnd(BlockAt(s, p).attr, 8) = 0 }

\* C32: when every call since the format has returned, no directory holds
\* two live entries with the same 11 name bytes; rename and move, too,
\* leave no second entry with a name the directory already has.
C32_UniqueNames ==
    allok =>
        \A d \in { 1 } \cup SubdirStarts(fs) :
            \A p, q \in NamedSlots(fs, d) :
                BlockAt(fs, p).name = BlockAt(fs, q).name => p = q

(***************************************************************************)
(* C33: what _alloccluster does to the FAT.                                *)
(***************************************************************************)
FreeEntries(fat) == { i \in 2 .. (FatLen - 1) : fat[i] = 0 }

\* attach_to is a data cluster in use that the FAT has an entry for
C33_Attachable(pre, attach_to) ==
    /\ _isvalidcluster(attach_to)
    /\ attach_to \in DOMAIN pre.fat
    /\ pre.fat[attach_to] # 0

C33_Allocated(pre, post, call) ==
    \E i \in FreeEntries(pre.fat) :
        /\ \A j \in FreeEntries(pre.fat) : i <= j
        /\ post.err = NoErr
        /\ call.contents = << i >>
        /\ post.fat[i] = EndOfChain
        /\ call.attrib # None => post.fat[call.attrib] = i
        /\ \A k \in DOMAIN pre.fat :
                k \notin { i, call.attrib } => post.fat[k] = pre.fat[k]
        /\ DOMAIN post.fat = DOMAIN pre.fat

\* C33: _alloccluster(attach_to), with attach_to none or a data cluster in
\* use, returns the lowest index from 2 on whose FAT entry is 0, sets that
\* entry to 0xFFF and the entry of attach_to to the index, and changes no
\* other entry; when no entry is 0 it raises IOError and changes nothing.
C33_AllocCluster ==
    [][ (/\ last'.op = "_alloccluster"
         /\ last'.attrib = None \/ C33_Attachable(fs, last'.attrib))
        => IF FreeEntries(fs.fat) = {}
           THEN /\ fs'.err = "IOError"
                /\ fs'.fat = fs.fat
                /\ fs'.dfat = fs.dfat
           ELSE C33_Allocated(fs, fs', last') ]_vars

\* _alloccluster(3) has returned cluster 5 on a FAT whose entries 2, 3 and
\* 4 were in use and whose entries 5 and 6 were free: entry 3 links to 5,
\* entry 5 ends the chain and entry 6 is still free
C33_Witness ==
    /\ last.op = "_alloccluster"
    /\ last.attrib = 3
    /\ last.contents = << 5 >>
    /\ fs.err = NoErr
    /\ fs.fat[2] = EndOfChain
    /\ fs.fat[3] = 5
    /\ fs.fat[4] = EndOfChain
    /\ fs.fat[5] = EndOfChain
    /\ fs.fat[6] = 0

(***************************************************************************)
(* C34: chdir into a subdirectory and back.                                *)
(***************************************************************************)
\* the object after a further chdir(path) at the time of the state s
ThenChdir(s, path) == chdir([s EXCEPT !.err = NoErr], path)

\* C34: when chdir(D) has returned for a subdirectory D of the current
\* directory, at the root or deeper, a chdir('..') from there returns and
\* gives back the cluster and the chain of parents of the directory left;
\* and chdir('.') returns and leaves both as they are.
C34_ChdirBack ==
    [][ /\ (/\ last'.op = "chdir" /\ last'.path \in { RelD, RelE }
             /\ fs'.err = NoErr)
            => /\ ThenChdir(fs', Up).err = NoErr
               /\ ThenChdir(fs', Up).dircluster = fs.dircluster
               /\ ThenChdir(fs', Up).dirparents = fs.dirparents
        /\ (last'.op = "chdir" /\ last'.path = Here)
            => /\ fs'.err = NoErr
               /\ fs'.dircluster = fs.dircluster
               /\ fs'.dirparents = fs.dirparents ]_vars

\* chdir('..') has returned from E inside D inside the root: the current
\* directory is D again, with the root as its only parent
C34_Witness ==
    /\ last.op = "chdir"
    /\ last.path = Up
    /\ fs.err = NoErr
    /\ fs.dircluster # 1
    /\ fs.dirparents = << 1 >>
    /\ Containers(fs, fs.dircluster) = { 1 }
    /\ \E e \in SubdirStarts(fs) : Containers(fs, e) = { fs.dircluster }
    /\ calls = MaxNavCalls

(***************************************************************************)
(* C35: creating an entry in the root directory when none of its           *)
(* root_entries slots is free (first name byte 0x00 or 0xE5) fails with    *)
(* the root-full error (IOError): the root region keeps its root_entries   *)
(* slots and every one of them keeps its 32 bytes, and a write_file that   *)
(* fails this way creates no file and leaves the FAT and the data area as  *)
(* they were.                                                              *)
(***************************************************************************)
RootIsFull(s) ==
    \A i \in 1 .. root_entries : ReadRoot(s)[i].name[1] \notin { 0, FreeMark }

\* the call creates an entry in the root: the current directory is the
\* root and the path names nothing there
C35_Creates(call) ==
    /\ fs.dircluster = 1
    /\ \/ call.op \in { "write_file", "create_directory" } /\ ~exists(fs, call.path).val
       \/ call.op = "copy" /\ exists(fs, call.path).val /\ ~exists(fs, call.folder).val

C35_RootFull ==
    [][ (RootIsFull(fs) /\ C35_Creates(last'))
            => /\ fs'.err = "IOError"
               /\ Len(ReadRoot(fs')) = root_entries
               /\ ReadRoot(fs') = ReadRoot(fs)
               /\ last'.op = "write_file"
                    => /\ ~exists(fs', last'.path).val
                       /\ fs'.fat = fs.fat
                       /\ fs'.sec = fs.sec ]_vars

\* a write_file of a new name has failed on a full root
C35_Witness ==
    /\ last.op = "write_file" /\ last.path = RelF /\ last.contents # << >>
    /\ calls > 0
    /\ fs.err = "IOError"
    /\ RootIsFull(fs)
    /\ ~exists(fs, RelF).val

(***************************************************************************)
(* C36: formatting an entry stores 0x05 as the first name byte when the    *)
(* name's first character is the literal 0xE5, parsing decodes a first     *)
(* byte of 0x05 back to 0xE5, and formatting what parsing returned gives   *)
(* the same 32 bytes for every legal entry, those whose name starts with   *)
(* 0x05 included: an entry that is rewritten keeps its name.               *)
(***************************************************************************)
C36_Legal(e) ==
    /\ _parsedirentry(e).exists = "True"
    /\ _parsedirentry(e).err = NoErr

C36_RoundTrip ==
    [][ /\ (last'.op = "_parsedirentry" /\ C36_Legal(fs.entry))
            => /\ fs'.err = NoErr
               /\ fs'.entry = fs.entry
        /\ (last'.op = "_parsedirentry" /\ C36_Legal(fs.entry) /\ fs.entry.name[1] = 5)
            => _parsedirentry(fs.entry).filename[1] = 229
        /\ (last'.op = "_makedirentry" /\ last'.path[1][1] = 229)
            => /\ fs'.err = NoErr
               /\ fs'.entry.name[1] = 5 ]_vars

(***************************************************************************)
(* C37: packing and unpacking the FAT are inverse.  Writing the FAT that   *)
(* _readfat decoded from a FAT region reproduces the region's bytes in     *)
(* every copy, where every three bytes b0, b1, b2 decode to the entries    *)
(* b0 | ((b1 & 0x0F) << 8) and (b1 >> 4) | (b2 << 4); and reading the FAT  *)
(* that _writefat wrote from the in-memory entries gives those entries     *)
(* back.                                                                   *)
(***************************************************************************)
\* entry i as the claim computes it from the bytes of a FAT copy
C37_Entry(bytes, i) ==
    LET k == 3 * (i \div 2)
    IN  IF i % 2 = 0 THEN bytes[k] + 256 * (bytes[k + 1] % 16)
        ELSE (bytes[k + 1] \div 16) + 16 * bytes[k + 2]

C37_Inverse ==
    [][ /\ (last'.op = "_readfat" /\ fs'.err = NoErr)
            => /\ \A i \in 0 .. (FatLen - 1) :
                    fs'.fat[i] = C37_Entry(DiskFatCopy(fs.dfat, 0), i)
               /\ \A c \in 0 .. (fat_count - 1) :
                    DiskFatCopy(fs'.dfat, c) = DiskFatCopy(fs.dfat, 0)
        /\ (last'.op = "_writefat" /\ fs'.err = NoErr)
            => fs'.fat = [fs.fat EXCEPT ![last'.contents[1]] = last'.attrib] ]_vars

\* a region with bytes of mixed nibbles has been read and written back,
\* and then the FAT with a link put into it has been written and read back:
\* the bytes 0xA5 are on the disk and the link is in memory
C37_Witness ==
    /\ calls = 2
    /\ fs.err = NoErr
    /\ last.op = "_writefat"
    /\ \E i \in 2 .. (FatLen - 1) : fs.fat[i] = 2748
    /\ \E j \in 3 .. (FatBytes - 1) : fs.dfat[j] = 165 /\ fs.dfat[FatBytes + j] = 165

====
